---- MODULE Spec2Model ----
(***************************************************************************)
(* Model of the baldaquin acquisition core: the run-control finite state   *)
(* machine (runctrl.py), the user application (app.py), the event handler  *)
(* (event.py) and the packet buffer with its sinks (buf.py).               *)
(*                                                                         *)
(* Ten specifications share the state:                                     *)
(*   Spec     the run control driven from the control thread, with the     *)
(*            acquisition workers running on the thread pool;              *)
(*   BufSpec  the buffer of one event handler used directly (put, flush,   *)
(*            add_sink, clear), no threads;                                *)
(*   HandlerSpec  one event handler used stand-alone through               *)
(*            acquire_packet and flush_buffer, no threads;                 *)
(*   LoopSpec  acquire_packet followed statement by statement;             *)
(*   StatSpec  HandlerSpec with sink files whose write can raise;          *)
(*   ThreadSpec  the buffer put to by one thread and flushed by another;   *)
(*   PairSpec  a FIFO and a CircularBuffer driven by the same calls;       *)
(*   FaultSpec  Spec with a source whose read_packet can raise or block;   *)
(*   PktSpec  packet classes constructed, packed and unpacked;             *)
(*   CfgSpec  a configuration constructed, set and read from files.        *)
(***************************************************************************)
EXTENDS Integers, Sequences, FiniteSets, TLC

VARIABLES
    state,                \* FiniteStateMachine.__state
    run_id,               \* RunControlBase._run_id
    run_cfg,              \* the integer stored in config/run.cfg
    user_application,     \* TRUE when RunControlBase._user_application is set
    log_file_handler_id,  \* TRUE when a run log sink is installed
    start_timestamp,      \* None or <<t>>
    stop_timestamp,       \* None or <<t>>
    clock,                \* the timeline: value of the next latch
    update_timer,         \* TRUE while the QTimer is active
    folders,              \* run ids whose data folder exists
    files,                \* the files on disk: path -> sequence of bytes
    handlers,             \* the event handlers created so far, by index
    event_handler,        \* UserApplicationBase.event_handler (0 is None)
    bufcfg,               \* BUFFER_CLASS and BUFFER_KWARGS of the handler class
    source,               \* sequence number of the next packet of the source
    configuration,        \* a ConfigurationBase: parameter name -> parameter
    ctl,                  \* position of the control thread
    last                  \* outcome of the last request (observation)

vars == <<state, run_id, run_cfg, user_application, log_file_handler_id,
          start_timestamp, stop_timestamp, clock, update_timer, folders,
          files, handlers, event_handler, bufcfg, source, configuration, ctl,
          last>>

(***************************************************************************)
(* Bounds of the model.                                                    *)
(***************************************************************************)
MaxRuns == 2        \* STOPPED -> RUNNING transitions (and handlers created)
MaxPackets == 3     \* packets the source delivers to a stand-alone handler
RunPackets == 2     \* packets the source delivers under the run control
MaxSize == 2        \* max_size of a bounded buffer
FlushSize == 1      \* flush_size of a buffer with a watermark
MaxFaults == 1      \* writes of a flush that raise

None == <<>>
NoHandler == 0

(***************************************************************************)
(* Packets.  A packet is the test packet of tests/test_buf.py: a constant  *)
(* header byte and a 16 bit big-endian packet_id; the source numbers the   *)
(* packets, so the packet_id identifies the packet.                        *)
(***************************************************************************)
HeaderByte == 170
ByteRange == 256
AsciiZero == 48
AsciiNewline == 10

\* FixedSizePacketBase.pack with layout '>' and format 'B' 'H'
Payload(p) == <<HeaderByte, p \div ByteRange, p % ByteRange>>

\* FixedSizePacketBase.__len__: the size of the packed structure
PacketSize == Len(Payload(0))

\* a text projection (as_text / to_text): the packet_id as a digit and a newline
AsText(p) == <<AsciiZero + (p % 10), AsciiNewline>>

\* FixedSizePacketBase.unpack, on the records of a canonical file
RECURSIVE Unpack(_)
Unpack(bytes) ==
    IF Len(bytes) < PacketSize THEN <<>>
    ELSE <<bytes[2] * ByteRange + bytes[3]>> \o Unpack(SubSeq(bytes, PacketSize + 1, Len(bytes)))

RECURSIVE ConcatNewestFirst(_, _, _)
\* a write that pops from the wrong end of the queue: newest packet first
ConcatNewestFirst(q, n, f) ==
    IF n = 0 THEN <<>>
    ELSE (IF f = "payload" THEN Payload(q[n]) ELSE AsText(q[n]))
         \o ConcatNewestFirst(q, n - 1, f)

RECURSIVE Concat(_, _, _)
\* the bytes written for the packets q[1..n] through the rendering f
Concat(q, n, f) ==
    IF n = 0 THEN <<>>
    ELSE Concat(q, n - 1, f) \o (IF f = "payload" THEN Payload(q[n]) ELSE AsText(q[n]))

(***************************************************************************)
(* Sinks and buffers.  A buffer is part of its event handler h:            *)
(*   h.queue  the queued packets, oldest first                             *)
(*   h.sinks  the attached sinks, in attachment order                      *)
(*   h.elapsed  TRUE when time_since_last_flush() > flush_interval         *)
(***************************************************************************)
\* a Sink.__init__ without the test on the file
SinkCreatableAlways(fs, path) == TRUE

\* Sink.__init__: the file must not exist; it is created, with its header
SinkCreatable(fs, path) == path \notin DOMAIN fs

CreateFile(fs, path, header) ==
    [p \in (DOMAIN fs) \cup {path} |-> IF p = path THEN header ELSE fs[p]]

WriteFile(fs, path, bytes) ==
    [p \in (DOMAIN fs) \cup {path} |->
        IF p = path THEN (IF p \in DOMAIN fs THEN fs[p] ELSE <<>>) \o bytes ELSE fs[p]]

\* BufferBase.__init__: the sizing check
\* (FIFO.__init__ hands max_size = -1 to it when no max_size is given)
BufferSizingOk(cfg) ==
    IF cfg.flush_size = None THEN TRUE
    ELSE IF cfg.max_size = None THEN cfg.class # "FIFO"
    ELSE cfg.max_size[1] > cfg.flush_size[1]

\* BufferBase.size
Size(h) == Len(h.queue)

\* a put that drops the new packet when the buffer is full
CircularPutDropNewest(q, cfg, p) ==
    IF cfg.max_size = None THEN q \o <<p>>
    ELSE IF Len(q) < cfg.max_size[1] THEN q \o <<p>>
    ELSE q

\* CircularBuffer._do_put: deque.append with maxlen drops the oldest when full
CircularPut(q, cfg, p) ==
    IF cfg.max_size = None THEN q \o <<p>>
    ELSE IF Len(q) < cfg.max_size[1] THEN q \o <<p>>
    ELSE IF cfg.max_size[1] = 0 THEN <<>>
    ELSE Tail(q) \o <<p>>

\* FIFO._do_put: queue.Queue.put with block = True waits while the queue is full
FifoCanPut(q, cfg) == IF cfg.max_size = None THEN TRUE ELSE Len(q) < cfg.max_size[1]

\* an almost_full that needs one packet more
AlmostFullStrict(h, cfg) == IF cfg.flush_size = None THEN FALSE ELSE Size(h) > cfg.flush_size[1]

\* BufferBase.almost_full
AlmostFull(h, cfg) == IF cfg.flush_size = None THEN FALSE ELSE Size(h) >= cfg.flush_size[1]

\* BufferBase.flush_needed
FlushNeeded(h, cfg) == IF AlmostFull(h, cfg) THEN TRUE ELSE h.elapsed

\* a write that leaves the last packet written in the queue
WriteNativePopOneLess(q, n) == SubSeq(q, n, Len(q))

\* BufferBase._write_native: pops num_packets packets and writes their payloads
WriteNativePop(q, n) == SubSeq(q, n + 1, Len(q))

\* the number of bytes flush() reports: num_bytes is initialised and never updated
FlushNumBytes(q, n) == 0

RECURSIVE WriteSinks(_, _, _, _, _)
\* The loop of flush() over reversed(self._sinks), from position i (0-based) on.
\* Returns the files, the queue and the error raised, if any.
WriteSinks(fs, h, cfg, n, i) ==
    LET nsinks == Len(h.sinks)
        sink == h.sinks[nsinks - i]
    IN  IF i >= nsinks THEN [files |-> fs, queue |-> h.queue, error |-> "none"]
        ELSE IF i # nsinks - 1
        THEN \* _write_custom: formatter(self[i]) on every queued packet
             IF cfg.class = "FIFO" THEN
                 \* queue.Queue is not subscriptable
                 [files |-> fs, queue |-> h.queue, error |-> "TypeError"]
             ELSE IF sink.formatter = "none" THEN
                 \* a projection-free sink that is not the first one: None is not callable
                 [files |-> fs, queue |-> h.queue, error |-> "TypeError"]
             ELSE WriteSinks(WriteFile(fs, sink.path, Concat(h.queue, n, sink.formatter)),
                             h, cfg, n, i + 1)
        ELSE \* _write_native on the first sink attached
             [files |-> WriteFile(fs, sink.path, Concat(h.queue, n, "payload")),
              queue |-> WriteNativePop(h.queue, n), error |-> "none"]

\* a flush that latches the flush time before it looks for a sink
FlushStampFirst(h, fs, cfg) ==
    LET n == Size(h)
        h1 == [h EXCEPT !.elapsed = FALSE]
    IN  IF Len(h.sinks) = 0
        THEN [h |-> h1, files |-> fs, error |-> "RuntimeError", n |-> 0, bytes |-> 0]
        ELSE IF n = 0
        THEN [h |-> h1, files |-> fs, error |-> "none", n |-> 0, bytes |-> 0]
        ELSE LET w == WriteSinks(fs, h1, cfg, n, 0)
             IN  [h |-> [h1 EXCEPT !.queue = w.queue], files |-> w.files,
                  error |-> w.error,
                  n |-> IF w.error = "none" THEN n ELSE 0,
                  bytes |-> IF w.error = "none" THEN FlushNumBytes(h.queue, n) ELSE 0]

\* BufferBase.flush: returns the handler, the files and the result
Flush(h, fs, cfg) ==
    IF Len(h.sinks) = 0
    THEN [h |-> h, files |-> fs, error |-> "RuntimeError", n |-> 0, bytes |-> 0]
    ELSE LET n == Size(h)
             h1 == [h EXCEPT !.elapsed = FALSE]
         IN  IF n = 0
             THEN [h |-> h1, files |-> fs, error |-> "none", n |-> 0, bytes |-> 0]
             ELSE LET w == WriteSinks(fs, h1, cfg, n, 0)
                  IN  [h |-> [h1 EXCEPT !.queue = w.queue], files |-> w.files,
                       error |-> w.error,
                       n |-> IF w.error = "none" THEN n ELSE 0,
                       bytes |-> IF w.error = "none" THEN FlushNumBytes(h.queue, n) ELSE 0]

\* PacketStatistics.update
StatsUpdate(h, processed, written, bytes) ==
    [h EXCEPT !.packets_processed = @ + processed,
              !.packets_written = @ + written,
              !.bytes_written = @ + bytes]

\* EventHandlerBase.flush_buffer
FlushBuffer(h, fs, cfg) ==
    LET r == Flush(h, fs, cfg)
    IN  IF r.error = "none"
        THEN [h |-> StatsUpdate(r.h, 0, r.n, r.bytes), files |-> r.files, error |-> "none"]
        ELSE [h |-> r.h, files |-> r.files, error |-> r.error]

\* an add_sink without the test on the first sink
AddSinkErrorAnyFirst(h, fs, path, formatter) ==
    IF ~SinkCreatable(fs, path) THEN "FileExistsError" ELSE "none"

\* BufferBase.add_sink
AddSinkError(h, fs, path, formatter) ==
    IF Len(h.sinks) = 0 /\ formatter # "none" THEN "RuntimeError"
    ELSE IF ~SinkCreatable(fs, path) THEN "FileExistsError"
    ELSE "none"

AddSink(h, path, formatter, err) ==
    IF err = "none"
    THEN [h EXCEPT !.sinks = @ \o <<[path |-> path, formatter |-> formatter]>>]
    ELSE h

Range(q) == {q[i] : i \in 1 .. Len(q)}

\* the observation of the packets a put or a clear removed from the queue
Discard(h, q) == [h EXCEPT !.queue = q, !.discarded = @ \cup (Range(h.queue) \ Range(q))]

\* FIFO.clear / CircularBuffer.clear
Clear(h) == Discard(h, <<>>)

\* BufferBase.put of a packet instance, for either buffer class
CanPut(q, cfg) == IF cfg.class = "CircularBuffer" THEN TRUE ELSE FifoCanPut(q, cfg)

Put(q, cfg, p) == IF cfg.class = "CircularBuffer" THEN CircularPut(q, cfg, p) ELSE q \o <<p>>

\* EventHandlerBase.acquire_packet, with read_packet returning packet p, up to
\* the test of flush_needed(): put, then statistics
AcquirePut(h, cfg, p) == StatsUpdate(Discard(h, Put(h.queue, cfg, p)), 1, 0, 0)

\* EventHandlerBase.acquire_packet as one call: put, statistics, flush when
\* needed, then process_packet
AcquirePacket(h, fs, cfg, p) ==
    LET h1 == AcquirePut(h, cfg, p)
    IN  IF FlushNeeded(h1, cfg)
        THEN FlushBuffer(h1, fs, cfg)
        ELSE [h |-> h1, files |-> fs, error |-> "none"]

\* EventHandlerBase.__init__.  Two fields are observations, not program state:
\* direct (the buffer was used bypassing the handler and its statistics) and
\* discarded (the packets removed from the queue without being written).
\* call is the frame of a flush() in progress on another thread than the
\* one that puts (None when there is none), faults the number of writes
\* that raised.
NewHandler ==
    [pc |-> "created", running |-> FALSE, queue |-> <<>>, sinks |-> <<>>,
     elapsed |-> FALSE, packets_processed |-> 0, packets_written |-> 0,
     bytes_written |-> 0, direct |-> FALSE, discarded |-> {}, call |-> None,
     faults |-> 0]

\* a handler slot not yet used
NoHandlerYet == [NewHandler EXCEPT !.pc = "none"]

(***************************************************************************)
(* Observation of the last request: the operation, the error it raised     *)
(* ("none" when it returned), what flush() returned, the FSM state before  *)
(* the request, the state_changed events it emitted, the arguments of the  *)
(* call where a property needs them, and the number of setup() calls the   *)
(* request made on the application.                                        *)
(***************************************************************************)
Outcome(op, error, n, bytes, emitted) ==
    [op |-> op, error |-> error, n |-> n, bytes |-> bytes,
     from |-> state, emitted |-> emitted, args |-> <<>>, setups |-> 0]

HandlerIds == 1 .. MaxRuns

\* the buffer configurations a handler class can declare; the constructor
\* of the buffer must accept them
BufClasses == {"FIFO", "CircularBuffer"}

\* the keyword arguments a buffer is constructed with: no max_size or a
\* max_size, no flush_size or a flush_size below, at or above the max_size
BufKwargs ==
    [class : BufClasses, max_size : {None, <<MaxSize>>},
     flush_size : {None, <<FlushSize>>, <<MaxSize>>}]
    \cup [class : BufClasses, max_size : {<<FlushSize>>}, flush_size : {<<MaxSize>>}]

BufConfigs == {c \in BufKwargs : BufferSizingOk(c)}

\* RunControlBase.__init__ with a fresh configuration folder
InitRunControl ==
    /\ state = "RESET"
    /\ run_id = 0
    /\ run_cfg = 0
    /\ user_application = FALSE
    /\ log_file_handler_id = FALSE
    /\ start_timestamp = None
    /\ stop_timestamp = None
    /\ clock = 1
    /\ update_timer = FALSE
    /\ folders = {}
    /\ files = <<>>
    /\ source = 1
    /\ configuration = <<>>
    /\ ctl = "idle"
    /\ last = [op |-> "init", error |-> "none", n |-> 0, bytes |-> 0,
               from |-> "RESET", emitted |-> <<>>, args |-> <<>>, setups |-> 0]

rcVars == <<state, run_id, run_cfg, user_application, log_file_handler_id,
            start_timestamp, stop_timestamp, clock, update_timer, folders,
            event_handler, bufcfg, ctl>>

(***************************************************************************)
(* BufSpec: one event handler, handlers[1], used stand-alone from a single *)
(* thread, as tests/test_buf.py and the docstring of acquire_packet do.    *)
(***************************************************************************)
SinkPaths == {<<0, "sink.dat">>, <<0, "sink.txt">>}
Formatters == {"none", "as_text"}
TextHeader == <<35, AsciiNewline>>

BufInit ==
    /\ InitRunControl
    /\ bufcfg \in BufKwargs
    /\ event_handler = NoHandler
    /\ handlers = [w \in HandlerIds |-> NoHandlerYet]

\* EventHandlerBase.__init__: BUFFER_CLASS(**BUFFER_KWARGS), which raises when
\* the sizing check of the buffer fails
BufConstruct ==
    /\ handlers[1].pc = "none"
    /\ IF BufferSizingOk(bufcfg)
       THEN /\ handlers' = [handlers EXCEPT ![1] = NewHandler]
            /\ last' = Outcome("construct", "none", 0, 0, <<>>)
       ELSE /\ last' = Outcome("construct", "RuntimeError", 0, 0, <<>>)
            /\ UNCHANGED handlers
    /\ UNCHANGED <<rcVars, source, configuration, files>>

\* buffer.add_sink(path, mode, formatter, header)
BufAddSink(path, formatter, header) ==
    LET h == handlers[1]
        err == AddSinkError(h, files, path, formatter)
    IN  /\ h.pc = "created"
        /\ handlers' = [handlers EXCEPT ![1] = AddSink(h, path, formatter, err)]
        /\ files' = IF err = "none" THEN CreateFile(files, path, header) ELSE files
        /\ last' = [Outcome("add_sink", err, 0, 0, <<>>) EXCEPT
                        !.args = [path |-> path, formatter |-> formatter]]
        /\ UNCHANGED <<rcVars, source, configuration>>

\* Sink(path, mode) created directly, attached to no buffer
BufSink(path) ==
    LET err == IF SinkCreatable(files, path) THEN "none" ELSE "FileExistsError"
    IN  /\ handlers[1].pc = "created"
        /\ files' = IF err = "none" THEN CreateFile(files, path, <<>>) ELSE files
        /\ last' = [Outcome("sink", err, 0, 0, <<>>) EXCEPT
                        !.args = [path |-> path, formatter |-> "none"]]
        /\ UNCHANGED <<rcVars, source, configuration, handlers>>

\* buffer.put(packet), bypassing the handler
BufPut ==
    LET h == handlers[1]
    IN  /\ h.pc = "created"
        /\ source <= MaxPackets
        /\ CanPut(h.queue, bufcfg)
        /\ handlers' = [handlers EXCEPT ![1] =
                          [Discard(h, Put(h.queue, bufcfg, source)) EXCEPT !.direct = TRUE]]
        /\ source' = source + 1
        /\ UNCHANGED configuration
        /\ last' = Outcome("put", "none", 0, 0, <<>>)
        /\ UNCHANGED <<rcVars, files>>

\* handler.acquire_packet(), called stand-alone
BufAcquirePacket ==
    LET h == handlers[1]
        r == AcquirePacket(h, files, bufcfg, source)
    IN  /\ h.pc = "created"
        /\ source <= MaxPackets
        /\ CanPut(h.queue, bufcfg)
        /\ handlers' = [handlers EXCEPT ![1] = r.h]
        /\ files' = r.files
        /\ source' = source + 1
        /\ UNCHANGED configuration
        /\ last' = Outcome("acquire_packet", r.error, 0, 0, <<>>)
        /\ UNCHANGED rcVars

\* handler.flush_buffer()
BufFlushBuffer ==
    LET r == FlushBuffer(handlers[1], files, bufcfg)
        f == Flush(handlers[1], files, bufcfg)
    IN  /\ handlers[1].pc = "created"
        /\ handlers' = [handlers EXCEPT ![1] = r.h]
        /\ files' = r.files
        /\ last' = Outcome("flush_buffer", r.error, f.n, f.bytes, <<>>)
        /\ UNCHANGED <<rcVars, source, configuration>>

\* buffer.flush(), bypassing the handler and its statistics
BufFlush ==
    LET r == Flush(handlers[1], files, bufcfg)
    IN  /\ handlers[1].pc = "created"
        /\ handlers' = [handlers EXCEPT ![1] = [r.h EXCEPT !.direct = TRUE]]
        /\ files' = r.files
        /\ last' = Outcome("flush", r.error, r.n, r.bytes, <<>>)
        /\ UNCHANGED <<rcVars, source, configuration>>

\* buffer.clear()
BufClear ==
    /\ handlers[1].pc = "created"
    /\ handlers' = [handlers EXCEPT ![1] = [Clear(@) EXCEPT !.direct = TRUE]]
    /\ last' = Outcome("clear", "none", 0, 0, <<>>)
    /\ UNCHANGED <<rcVars, source, configuration, files>>

\* time passes: more than flush_interval since the last flush
BufTick ==
    /\ handlers[1].pc = "created"
    /\ ~handlers[1].elapsed
    /\ handlers' = [handlers EXCEPT ![1].elapsed = TRUE]
    /\ last' = Outcome("tick", "none", 0, 0, <<>>)
    /\ UNCHANGED <<rcVars, source, configuration, files>>

BufNext ==
    \/ BufConstruct
    \/ \E path \in SinkPaths, formatter \in Formatters :
          BufAddSink(path, formatter, IF formatter = "none" THEN <<>> ELSE TextHeader)
    \/ \E path \in SinkPaths : BufSink(path)
    \/ BufPut
    \/ BufFlush
    \/ BufClear
    \/ BufTick

BufSpec == BufInit /\ [][BufNext]_vars

(***************************************************************************)
(* HandlerSpec: the same event handler used through its own methods only   *)
(* (acquire_packet, flush_buffer), which keep the statistics.              *)
(***************************************************************************)
HandlerNext ==
    \/ BufConstruct
    \/ \E path \in SinkPaths, formatter \in Formatters :
          BufAddSink(path, formatter, IF formatter = "none" THEN <<>> ELSE TextHeader)
    \/ BufAcquirePacket
    \/ BufFlushBuffer
    \/ BufTick

HandlerSpec == BufInit /\ [][HandlerNext]_vars

\* flush_buffer() on a handler with the canonical sink only, in which the
\* k-th output_file.write of _write_native raises: k packets were popped,
\* k - 1 payloads were written, flush() does not return and
\* statistics.update is not reached
BufFlushBufferFault(k) ==
    LET h == handlers[1]
        sink == h.sinks[1]
    IN  /\ h.pc = "created"
        /\ Len(h.sinks) = 1
        /\ k <= Size(h)
        /\ h.faults < MaxFaults
        /\ handlers' = [handlers EXCEPT ![1].queue = WriteNativePop(h.queue, k),
                                        ![1].faults = @ + 1]
        /\ files' = WriteFile(files, sink.path, Concat(h.queue, k - 1, "payload"))
        /\ last' = Outcome("flush_buffer", "OSError", 0, 0, <<>>)
        /\ UNCHANGED <<rcVars, source, configuration>>

StatNext ==
    \/ HandlerNext
    \/ \E k \in 1 .. MaxPackets : BufFlushBufferFault(k)

StatSpec == BufInit /\ [][StatNext]_vars

(***************************************************************************)
(* LoopSpec: acquire_packet() followed statement by statement, for a       *)
(* handler class whose read_packet returns a packet instance (the          *)
(* annotation of EventHandlerBase.read_packet) or bytes (the handlers of   *)
(* silly.py, mock.py and plasduino: packet.pack() or a serial read).       *)
(***************************************************************************)
ReadKinds == {"packet", "bytes"}

\* BufferBase.put: isinstance(packet, AbstractPacket)
PutError(returned) == IF returned = "packet" THEN "none" ELSE "TypeError"

\* acquire_packet with read_packet returning p as a value of the kind
\* returned: the handler and the files afterwards, the error raised and the
\* calls made, in order
AcquireSteps(h, fs, cfg, p, returned) ==
    IF PutError(returned) # "none"
    THEN [h |-> h, files |-> fs, error |-> PutError(returned),
          steps |-> <<"read_packet", "put">>]
    ELSE LET h1 == AcquirePut(h, cfg, p)
             r == FlushBuffer(h1, fs, cfg)
         IN  IF ~FlushNeeded(h1, cfg)
             THEN [h |-> h1, files |-> fs, error |-> "none",
                   steps |-> <<"read_packet", "put", "update", "flush_needed",
                               "process_packet">>]
             ELSE IF r.error # "none"
             THEN [h |-> r.h, files |-> r.files, error |-> r.error,
                   steps |-> <<"read_packet", "put", "update", "flush_needed",
                               "flush_buffer">>]
             ELSE [h |-> r.h, files |-> r.files, error |-> "none",
                   steps |-> <<"read_packet", "put", "update", "flush_needed",
                               "flush_buffer", "process_packet">>]

\* handler.acquire_packet()
LoopAcquirePacket(returned) ==
    LET h == handlers[1]
        r == AcquireSteps(h, files, bufcfg, source, returned)
    IN  /\ h.pc = "created"
        /\ source <= MaxPackets
        /\ CanPut(h.queue, bufcfg)
        /\ handlers' = [handlers EXCEPT ![1] = r.h]
        /\ files' = r.files
        /\ source' = source + 1
        /\ UNCHANGED configuration
        /\ last' = [Outcome("acquire_packet", r.error, 0, 0, <<>>)
                      EXCEPT !.args = [returned |-> returned, steps |-> r.steps,
                                       flush |-> FlushNeeded(AcquirePut(h, bufcfg, source),
                                                             bufcfg)]]
        /\ UNCHANGED rcVars

LoopNext ==
    \/ BufConstruct
    \/ \E path \in SinkPaths, formatter \in Formatters :
          BufAddSink(path, formatter, IF formatter = "none" THEN <<>> ELSE TextHeader)
    \/ \E returned \in ReadKinds : LoopAcquirePacket(returned)
    \/ BufTick

LoopSpec == BufInit /\ [][LoopNext]_vars

(***************************************************************************)
(* ThreadSpec: the buffer of handlers[1] shared by two threads, one that   *)
(* puts and one that flushes, as the note in flush() foresees ("we might   *)
(* be adding new packets while flushing the buffer").  flush() is taken    *)
(* one write at a time.  Its frame, handlers[1].call, holds the locals of  *)
(* the call: num_packets, the position i in reversed(self._sinks) and the  *)
(* position k in range(num_packets); and three observations: the queue at  *)
(* the call, the writes made so far as <<sink path, packet, turn of the    *)
(* loop>> and the packets put since the call.                              *)
(***************************************************************************)
\* flush() up to the loop over the sinks
FlushCall ==
    LET h == handlers[1]
        n == Size(h)
        obs == [snapshot |-> h.queue, writes |-> <<>>, during |-> <<>>,
                queue |-> h.queue]
    IN  /\ h.pc = "created"
        /\ h.call = None
        /\ IF Len(h.sinks) = 0
           THEN /\ last' = [Outcome("flush", "RuntimeError", 0, 0, <<>>) EXCEPT !.args = obs]
                /\ UNCHANGED handlers
           ELSE IF n = 0
           THEN /\ last' = [Outcome("flush", "none", 0, 0, <<>>) EXCEPT !.args = obs]
                /\ handlers' = [handlers EXCEPT ![1].elapsed = FALSE, ![1].direct = TRUE]
           ELSE /\ last' = Outcome("flush_call", "none", 0, 0, <<>>)
                /\ handlers' = [handlers EXCEPT ![1].elapsed = FALSE, ![1].direct = TRUE,
                                    ![1].call = <<[n |-> n, i |-> 0, k |-> 0,
                                                   snapshot |-> h.queue, writes |-> <<>>,
                                                   during |-> <<>>]>>]
        /\ UNCHANGED <<rcVars, source, configuration, files>>

\* one turn of the loop of _write_custom or _write_native: the write (or the
\* formatter) raises when fails.  _write_native pops before it writes.
FlushWrite(fails) ==
    LET h == handlers[1]
        c == h.call[1]
        nsinks == Len(h.sinks)
        sink == h.sinks[nsinks - c.i]
        custom == c.i # nsinks - 1
        error == IF custom /\ (bufcfg.class = "FIFO" \/ sink.formatter = "none")
                 THEN "TypeError"
                 ELSE IF custom /\ c.k + 1 > Len(h.queue) THEN "IndexError"
                 ELSE IF fails THEN "OSError"
                 ELSE "none"
        p == IF custom THEN (IF c.k + 1 > Len(h.queue) THEN 0 ELSE h.queue[c.k + 1])
             ELSE Head(h.queue)
        queue == IF custom THEN h.queue ELSE Tail(h.queue)
        writes == IF error = "none" THEN Append(c.writes, <<sink.path, p, c.k + 1>>)
                  ELSE c.writes
        returns == error = "none" /\ ~custom /\ c.k + 1 = c.n
        obs == [snapshot |-> c.snapshot, writes |-> writes, during |-> c.during,
                queue |-> queue]
    IN  /\ h.pc = "created"
        /\ h.call # None
        /\ custom \/ Len(h.queue) > 0
        /\ fails => h.faults < MaxFaults
        /\ files' = IF error # "none" THEN files
                    ELSE WriteFile(files, sink.path,
                                   IF custom THEN AsText(p) ELSE Payload(p))
        /\ handlers' = [handlers EXCEPT
                           ![1].queue = queue,
                           ![1].faults = IF error = "OSError" THEN @ + 1 ELSE @,
                           ![1].call = IF error # "none" \/ returns THEN None
                                       ELSE IF c.k + 1 = c.n
                                       THEN <<[c EXCEPT !.i = @ + 1, !.k = 0,
                                                        !.writes = writes]>>
                                       ELSE <<[c EXCEPT !.k = @ + 1, !.writes = writes]>>]
        /\ last' = IF error # "none"
                   THEN [Outcome("flush", error, 0, 0, <<>>) EXCEPT !.args = obs]
                   ELSE IF returns
                   THEN [Outcome("flush", "none", c.n, FlushNumBytes(c.snapshot, c.n), <<>>)
                            EXCEPT !.args = obs]
                   ELSE Outcome("flush_write", "none", 0, 0, <<>>)
        /\ UNCHANGED <<rcVars, source, configuration>>

\* buffer.put(packet) on the acquisition thread, at any point of a flush
ThreadPut ==
    LET h == handlers[1]
        h1 == [Discard(h, Put(h.queue, bufcfg, source)) EXCEPT !.direct = TRUE]
    IN  /\ h.pc = "created"
        /\ source <= MaxPackets
        /\ CanPut(h.queue, bufcfg)
        /\ handlers' = [handlers EXCEPT ![1] =
                          IF h.call = None THEN h1
                          ELSE [h1 EXCEPT !.call[1].during = Append(@, source)]]
        /\ source' = source + 1
        /\ UNCHANGED configuration
        /\ last' = Outcome("put", "none", 0, 0, <<>>)
        /\ UNCHANGED <<rcVars, files>>

\* the sinks are attached before the threads start
ThreadAddSink(path, formatter, header) ==
    /\ handlers[1].queue = <<>>
    /\ source = 1
    /\ BufAddSink(path, formatter, header)

ThreadNext ==
    \/ BufConstruct
    \/ \E path \in SinkPaths, formatter \in Formatters :
          ThreadAddSink(path, formatter, IF formatter = "none" THEN <<>> ELSE TextHeader)
    \/ ThreadPut
    \/ FlushCall
    \/ \E fails \in BOOLEAN : FlushWrite(fails)

ThreadSpec == BufInit /\ [][ThreadNext]_vars

(***************************************************************************)
(* PairSpec: a FIFO, handlers[1], and a CircularBuffer, handlers[2], built *)
(* with the same arguments and driven by the same calls from one thread.   *)
(* The sinks of handlers[w] are the files <<w, name>>; last pairs the      *)
(* results of the two buffers.                                             *)
(***************************************************************************)
PairClasses == <<"FIFO", "CircularBuffer">>
SinkNames == {"sink.dat", "sink.txt"}

\* the arguments of the pair, as handed to the buffer of class PairClasses[w]
PairCfg(w) == [bufcfg EXCEPT !.class = PairClasses[w]]

PairInit ==
    /\ InitRunControl
    /\ bufcfg \in {c \in BufKwargs : \A w \in 1 .. 2 :
                        BufferSizingOk([c EXCEPT !.class = PairClasses[w]])}
    /\ bufcfg.class = PairClasses[1]
    /\ event_handler = NoHandler
    /\ handlers = [w \in HandlerIds |-> IF w <= 2 THEN NewHandler ELSE NoHandlerYet]

\* the queue of neither buffer is filled by one more packet
PairRoom ==
    \A w \in 1 .. 2 :
       IF bufcfg.max_size = None THEN TRUE
       ELSE Len(handlers[w].queue) + 1 < bufcfg.max_size[1]

\* add_sink(path, mode, formatter, header) on both buffers
PairAddSink(name, formatter) ==
    LET err == [w \in 1 .. 2 |-> AddSinkError(handlers[w], files, <<w, name>>, formatter)]
        header == IF formatter = "none" THEN <<>> ELSE TextHeader
        f1 == IF err[1] = "none" THEN CreateFile(files, <<1, name>>, header) ELSE files
        f2 == IF err[2] = "none" THEN CreateFile(f1, <<2, name>>, header) ELSE f1
    IN  /\ handlers' = [w \in HandlerIds |->
                          IF w <= 2 THEN AddSink(handlers[w], <<w, name>>, formatter, err[w])
                          ELSE handlers[w]]
        /\ files' = f2
        /\ last' = Outcome("add_sink", err, <<0, 0>>, <<0, 0>>, <<>>)
        /\ UNCHANGED <<rcVars, source, configuration>>

\* put(packet) on both buffers
PairPut ==
    /\ source <= MaxPackets
    /\ PairRoom
    /\ handlers' = [w \in HandlerIds |->
                      IF w <= 2
                      THEN Discard(handlers[w], Put(handlers[w].queue, PairCfg(w), source))
                      ELSE handlers[w]]
    /\ source' = source + 1
    /\ UNCHANGED configuration
    /\ last' = Outcome("put", <<"none", "none">>, <<0, 0>>, <<0, 0>>, <<>>)
    /\ UNCHANGED <<rcVars, files>>

\* flush() on both buffers
PairFlush ==
    LET r1 == Flush(handlers[1], files, PairCfg(1))
        r2 == Flush(handlers[2], r1.files, PairCfg(2))
    IN  /\ handlers' = [handlers EXCEPT ![1] = r1.h, ![2] = r2.h]
        /\ files' = r2.files
        /\ last' = Outcome("flush", <<r1.error, r2.error>>, <<r1.n, r2.n>>,
                           <<r1.bytes, r2.bytes>>, <<>>)
        /\ UNCHANGED <<rcVars, source, configuration>>

\* clear() on both buffers
PairClear ==
    /\ handlers' = [handlers EXCEPT ![1] = Clear(@), ![2] = Clear(@)]
    /\ last' = Outcome("clear", <<"none", "none">>, <<0, 0>>, <<0, 0>>, <<>>)
    /\ UNCHANGED <<rcVars, source, configuration, files>>

PairNext ==
    \/ \E name \in SinkNames, formatter \in Formatters : PairAddSink(name, formatter)
    \/ PairPut
    \/ PairFlush
    \/ PairClear

PairSpec == PairInit /\ [][PairNext]_vars

(***************************************************************************)
(* Spec: the run control.  The control thread serves one request at a      *)
(* time; the acquisition workers run on the global thread pool.  The       *)
(* handler created by the run with run id r is handlers[r], and its data   *)
(* file is DataFilePath(r).                                                *)
(***************************************************************************)
\* RunControlBase.data_file_path: the folder and the file name follow the run id
DataFilePath(r) == <<r, "data.dat">>

\* FiniteStateMachine.set_reset .. set_paused: the hook a request runs in
\* state s, or "invalid" when it raises InvalidFsmTransitionError
SetResetHook(s) == IF s = "STOPPED" THEN "teardown" ELSE "invalid"

SetStoppedHook(s) ==
    IF s = "RESET" THEN "setup"
    ELSE IF s = "RUNNING" THEN "stop_run"
    ELSE IF s = "PAUSED" THEN "stop"
    ELSE "invalid"

\* a set_running that starts a new run when asked in PAUSED
SetRunningHookRestart(s) ==
    IF s \in {"STOPPED", "PAUSED"} THEN "start_run" ELSE "invalid"

SetRunningHook(s) ==
    IF s = "STOPPED" THEN "start_run"
    ELSE IF s = "PAUSED" THEN "resume"
    ELSE "invalid"

\* a set_paused that is also accepted in STOPPED
SetPausedHookFromStopped(s) == IF s \in {"RUNNING", "STOPPED"} THEN "pause" ELSE "invalid"

SetPausedHook(s) == IF s = "RUNNING" THEN "pause" ELSE "invalid"

\* a set_* method that calls _set_state(target) before its hook
TransitionBeforeHook(s, target, error) ==
    IF error = "InvalidFsmTransitionError"
    THEN [state |-> s, emitted |-> <<>>]
    ELSE [state |-> target, emitted |-> <<target>>]

\* The tail of every set_* method: the hook has run; _set_state(target) is
\* reached only when it did not raise.  Gives the new state and the
\* state_changed events emitted.
Transition(s, target, error) ==
    IF error = "none"
    THEN [state |-> target, emitted |-> <<target>>]
    ELSE [state |-> s, emitted |-> <<>>]

\* a check that lets a missing application through
CheckUserApplicationSkipped(loaded) == "none"

\* RunControlBase._check_user_application
CheckUserApplication(loaded) == IF loaded THEN "none" ELSE "AppNotLoadedError"

\* the run-control data a hook works on
RC == [run_id |-> run_id, run_cfg |-> run_cfg, folders |-> folders,
       log |-> log_file_handler_id, start |-> start_timestamp,
       stop |-> stop_timestamp, clock |-> clock, timer |-> update_timer,
       handlers |-> handlers, event_handler |-> event_handler, files |-> files,
       app |-> user_application]

SetRC(rc) ==
    /\ run_id' = rc.run_id
    /\ run_cfg' = rc.run_cfg
    /\ folders' = rc.folders
    /\ log_file_handler_id' = rc.log
    /\ start_timestamp' = rc.start
    /\ stop_timestamp' = rc.stop
    /\ clock' = rc.clock
    /\ update_timer' = rc.timer
    /\ handlers' = rc.handlers
    /\ event_handler' = rc.event_handler
    /\ files' = rc.files

Ok(rc) == [rc |-> rc, error |-> "none"]
Raise(rc, error) == [rc |-> rc, error |-> error]

\* EventHandlerBase.set_output_file, as UserApplicationBase.start calls it on
\* the new handler: the canonical sink of the run is attached to the buffer
SetOutputFile(rc, w, path) ==
    LET err == AddSinkError(rc.handlers[w], rc.files, path, "none")
    IN  IF err # "none" THEN Raise(rc, err)
        ELSE Ok([rc EXCEPT !.handlers[w] = AddSink(@, path, "none", "none"),
                           !.files = CreateFile(rc.files, path, <<>>)])

\* UserApplicationBase.start: a new handler, its output file, and the handler
\* is submitted to the thread pool
\* a start() that submits the handler without setting its output file
AppStartNoOutputFile(rc, path) ==
    LET w == rc.run_id
        rc1 == [rc EXCEPT !.handlers[w] = NewHandler, !.event_handler = w]
    IN  Ok([rc1 EXCEPT !.handlers[w].pc = "submitted"])

AppStart(rc, path) ==
    LET w == rc.run_id
        rc1 == [rc EXCEPT !.handlers[w] = NewHandler, !.event_handler = w]
        r == SetOutputFile(rc1, w, path)
    IN  IF r.error # "none" THEN r
        ELSE Ok([r.rc EXCEPT !.handlers[w].pc = "submitted"])

\* RunControlBase.update_stats: it reads the statistics of
\* user_application.event_handler, which is None when no run is going on
UpdateStats(rc) ==
    IF rc.event_handler = NoHandler THEN Raise(rc, "AttributeError") ELSE Ok(rc)

\* One statement of RunControlBase.start_run
StartRunStep(rc, step) ==
    CASE step = "check" ->
            Raise(rc, CheckUserApplication(rc.app))
      [] step = "configure" -> Ok(rc)
      [] step = "increment" -> Ok([rc EXCEPT !.run_id = @ + 1])
      [] step = "write_run_id" -> Ok([rc EXCEPT !.run_cfg = rc.run_id])
      [] step = "mkdir" ->
            IF rc.run_id \in rc.folders THEN Raise(rc, "FileExistsError")
            ELSE Ok([rc EXCEPT !.folders = @ \cup {rc.run_id}])
      [] step = "logger_add" -> Ok([rc EXCEPT !.log = TRUE])
      [] step = "latch" ->
            Ok([rc EXCEPT !.start = <<rc.clock>>, !.clock = @ + 1, !.stop = None])
      [] step = "app_start" -> AppStart(rc, DataFilePath(rc.run_id))
      [] step = "timer_start" -> Ok([rc EXCEPT !.timer = TRUE])
      [] step = "update_stats" -> UpdateStats(rc)

\* a start_run that creates the data folder before the run id is written
StartRunStepsFolderFirst ==
    <<"check", "configure", "increment", "mkdir", "write_run_id", "logger_add",
      "latch", "app_start", "timer_start", "update_stats">>

\* RunControlBase.start_run, statement by statement
StartRunSteps ==
    <<"check", "configure", "increment", "write_run_id", "mkdir", "logger_add",
      "latch", "app_start", "timer_start", "update_stats">>

\* the statements of start_run that call out and can raise there
StartRunFailures == {"configure", "write_run_id", "mkdir", "logger_add", "app_start"}

RECURSIVE RunSteps(_, _, _, _)
\* Runs the statements from position i on; failAt is the statement that
\* raises (before it changed anything), "none" when no call fails.
RunSteps(rc, steps, i, failAt) ==
    IF i > Len(steps) THEN Ok(rc)
    ELSE IF steps[i] = failAt THEN Raise(rc, "HookError")
    ELSE LET r == StartRunStep(rc, steps[i])
         IN  IF r.error # "none" THEN r
             ELSE RunSteps(r.rc, steps, i + 1, failAt)

StartRun(rc, failAt) == RunSteps(rc, StartRunSteps, 1, failAt)

\* QThreadPool.waitForDone returns when no runnable of the pool is queued or running
\* a stop path that does not wait for the pool
PoolDoneNoWait(hs) == TRUE

PoolDone(hs) ==
    \A w \in HandlerIds : hs[w].pc \notin {"submitted", "running", "flushing", "blocked"}

RunBufConfigs ==
    {c \in BufConfigs : c.class = "CircularBuffer" /\ (c.max_size = None <=> c.flush_size = None)}

Init ==
    /\ InitRunControl
    /\ bufcfg \in RunBufConfigs
    /\ event_handler = NoHandler
    /\ handlers = [w \in HandlerIds |-> NoHandlerYet]

Idle == ctl = "idle"

\* a request that leaves everything but the FSM state alone
\* a request whose hook changes nothing but the application; setups is the
\* number of calls of the application's setup() it made
Request(op, target, error, setups) ==
    LET t == Transition(state, target, error)
    IN  /\ state' = t.state
        /\ last' = [Outcome(op, error, 0, 0, t.emitted) EXCEPT !.setups = setups]

\* a load_user_application that does not test the FSM state
LoadErrorAnyState(s, valid) == IF ~valid THEN "RuntimeError" ELSE "none"

\* the two tests load_user_application makes before it changes anything
LoadError(s, valid) == IF s # "RESET" \/ ~valid THEN "RuntimeError" ELSE "none"

\* load_user_application(app): valid is isinstance(app, UserApplicationBase);
\* setupFails is the application's setup() raising
LoadUserApplication(valid, setupFails) ==
    /\ Idle
    /\ IF LoadError(state, valid) # "none"
       THEN /\ last' = [Outcome("load_user_application", LoadError(state, valid), 0, 0, <<>>)
                          EXCEPT !.args = [valid |-> valid]]
            /\ UNCHANGED <<state, user_application>>
       ELSE /\ user_application' = TRUE
            /\ Request("load_user_application", "STOPPED",
                       IF setupFails THEN "HookError" ELSE "none", 1)
    /\ UNCHANGED <<run_id, run_cfg, log_file_handler_id, start_timestamp,
                   stop_timestamp, clock, update_timer, folders, files, handlers,
                   event_handler, bufcfg, source, configuration, ctl>>

\* set_reset(): teardown() in STOPPED
SetReset(hookFails) ==
    /\ Idle
    /\ LET hook == SetResetHook(state)
           check == CheckUserApplication(user_application)
       IN  Request("set_reset", "RESET",
                   IF hook = "invalid" THEN "InvalidFsmTransitionError"
                   ELSE IF check # "none" THEN check
                   ELSE IF hookFails THEN "HookError" ELSE "none", 0)
    /\ UNCHANGED <<run_id, run_cfg, user_application, log_file_handler_id,
                   start_timestamp, stop_timestamp, clock, update_timer, folders,
                   files, handlers, event_handler, bufcfg, source, configuration, ctl>>

\* set_stopped() in RESET (setup), PAUSED (stop) and STOPPED (invalid)
SetStopped(hookFails) ==
    /\ Idle
    /\ SetStoppedHook(state) # "stop_run"
    /\ LET hook == SetStoppedHook(state)
           check == CheckUserApplication(user_application)
       IN  Request("set_stopped", "STOPPED",
                   IF hook = "invalid" THEN "InvalidFsmTransitionError"
                   ELSE IF check # "none" THEN check
                   ELSE IF hook = "setup" /\ hookFails THEN "HookError" ELSE "none",
                   IF hook = "setup" /\ check = "none" THEN 1 ELSE 0)
    /\ UNCHANGED <<run_id, run_cfg, user_application, log_file_handler_id,
                   start_timestamp, stop_timestamp, clock, update_timer, folders,
                   files, handlers, event_handler, bufcfg, source, configuration, ctl>>

\* set_stopped() in RUNNING, up to the wait for the worker: stop_run() stops
\* the timer, UserApplicationBase.stop() clears the running flag of the
\* handler and calls waitForDone().  With no event handler (a stop_run() went
\* as far as event_handler = None before) event_handler.stop() raises.
StopRunBegin ==
    /\ Idle
    /\ SetStoppedHook(state) = "stop_run"
    /\ CheckUserApplication(user_application) = "none"
    /\ update_timer' = FALSE
    /\ IF event_handler = NoHandler
       THEN /\ last' = Outcome("set_stopped", "AttributeError", 0, 0, <<>>)
            /\ UNCHANGED <<handlers, ctl>>
       ELSE /\ handlers' = [handlers EXCEPT ![event_handler].running = FALSE]
            /\ ctl' = "join"
            /\ last' = Outcome("set_stopped", "pending", 0, 0, <<>>)
    /\ UNCHANGED <<state, run_id, run_cfg, user_application, log_file_handler_id,
                   start_timestamp, stop_timestamp, clock, folders, files,
                   event_handler, bufcfg, source, configuration>>

\* the statements of stop_run() after UserApplicationBase.stop() has returned:
\* the stop timestamp, the removal of the run log sink, update_stats()
StopRunClose(rc) ==
    UpdateStats([rc EXCEPT !.stop = <<rc.clock>>, !.clock = @ + 1, !.log = FALSE])

\* set_stopped() in RUNNING, once waitForDone() has returned: the final
\* flush_buffer(), event_handler = None, then the rest of stop_run()
StopRunEnd ==
    /\ ctl = "join"
    /\ PoolDone(handlers)
    /\ LET f == FlushBuffer(handlers[event_handler], files, bufcfg)
           rc1 == [RC EXCEPT !.handlers[event_handler] = f.h, !.files = f.files]
           r == IF f.error # "none" THEN Raise(rc1, f.error)
                ELSE StopRunClose([rc1 EXCEPT !.event_handler = NoHandler])
           t == Transition(state, "STOPPED", r.error)
       IN  /\ SetRC(r.rc)
           /\ state' = t.state
           /\ last' = Outcome("set_stopped", r.error,
                               f.h.packets_written - handlers[event_handler].packets_written,
                               0, t.emitted)
    /\ ctl' = "idle"
    /\ UNCHANGED <<user_application, bufcfg, source, configuration>>

\* set_running(): start_run() in STOPPED, resume() in PAUSED
SetRunning(failAt) ==
    /\ Idle
    /\ SetRunningHook(state) = "start_run" => run_id < MaxRuns
    /\ LET hook == SetRunningHook(state)
           r == IF hook = "invalid" THEN Raise(RC, "InvalidFsmTransitionError")
                ELSE IF hook = "resume"
                THEN Raise(RC, CheckUserApplication(user_application))
                ELSE StartRun(RC, failAt)
           t == Transition(state, "RUNNING", r.error)
       IN  /\ SetRC(r.rc)
           /\ state' = t.state
           /\ last' = Outcome("set_running", r.error, 0, 0, t.emitted)
    /\ UNCHANGED <<user_application, bufcfg, source, configuration, ctl>>

\* set_paused(): pause() in RUNNING
SetPaused ==
    /\ Idle
    /\ LET hook == SetPausedHook(state)
       IN  Request("set_paused", "PAUSED",
                   IF hook = "invalid" THEN "InvalidFsmTransitionError"
                   ELSE CheckUserApplication(user_application), 0)
    /\ UNCHANGED <<run_id, run_cfg, user_application, log_file_handler_id,
                   start_timestamp, stop_timestamp, clock, update_timer, folders,
                   files, handlers, event_handler, bufcfg, source, configuration, ctl>>

workerFrame == <<state, run_id, run_cfg, user_application, log_file_handler_id,
                 start_timestamp, stop_timestamp, clock, update_timer, folders,
                 event_handler, bufcfg, ctl>>

\* EventHandlerBase.run, up to the loop: a residual buffer is cleared and the
\* running flag is set
WorkerRun(w) ==
    /\ handlers[w].pc = "submitted"
    /\ handlers' = [handlers EXCEPT ![w] =
                      [(IF Size(@) > 0 THEN Clear(@) ELSE @) EXCEPT
                           !.running = TRUE, !.pc = "running"]]
    /\ last' = Outcome("worker", "none", 0, 0, <<>>)
    /\ UNCHANGED <<workerFrame, files, source, configuration>>

\* one iteration of the loop of run(): the flag is set and acquire_packet()
\* reads the next packet of the source, puts it and tests flush_needed();
\* without a flush the call returns and the loop goes on
WorkerAcquire(w) ==
    /\ handlers[w].pc = "running"
    /\ handlers[w].running
    /\ source <= RunPackets
    /\ LET h1 == AcquirePut(handlers[w], bufcfg, source)
       IN  handlers' = [handlers EXCEPT ![w] =
                          [h1 EXCEPT !.pc = IF FlushNeeded(h1, bufcfg)
                                            THEN "flushing" ELSE "running"]]
    /\ last' = Outcome("worker", "none", 0, 0, <<>>)
    /\ source' = source + 1
    /\ UNCHANGED configuration
    /\ UNCHANGED <<workerFrame, files>>

\* the flush_buffer() inside acquire_packet(), on the worker's thread; an
\* exception ends the runnable
WorkerFlush(w) ==
    /\ handlers[w].pc = "flushing"
    /\ LET r == FlushBuffer(handlers[w], files, bufcfg)
       IN  /\ handlers' = [handlers EXCEPT ![w] =
                             [r.h EXCEPT !.pc = IF r.error = "none"
                                                THEN "running" ELSE "died"]]
           /\ files' = r.files
           /\ last' = Outcome("worker", r.error, 0, 0, <<>>)
    /\ UNCHANGED <<workerFrame, source, configuration>>

\* one iteration of the loop of run() with nothing left to read: the flag is
\* set, acquire_packet() calls read_packet(), which never returns
WorkerBlock(w) ==
    /\ handlers[w].pc = "running"
    /\ handlers[w].running
    /\ source > RunPackets
    /\ handlers' = [handlers EXCEPT ![w].pc = "blocked"]
    /\ last' = Outcome("worker", "none", 0, 0, <<>>)
    /\ UNCHANGED <<workerFrame, files, source, configuration>>

\* one iteration of the loop of run() in which read_packet() raises: the
\* exception leaves acquire_packet() and run(), and the runnable ends
WorkerRaise(w) ==
    /\ handlers[w].pc = "running"
    /\ handlers[w].running
    /\ handlers' = [handlers EXCEPT ![w].pc = "died"]
    /\ last' = Outcome("worker", "SourceError", 0, 0, <<>>)
    /\ UNCHANGED <<workerFrame, files, source, configuration>>

\* the loop of run() finds the flag cleared and the runnable returns
WorkerExit(w) ==
    /\ handlers[w].pc = "running"
    /\ ~handlers[w].running
    /\ handlers' = [handlers EXCEPT ![w].pc = "done"]
    /\ last' = Outcome("worker", "none", 0, 0, <<>>)
    /\ UNCHANGED <<workerFrame, files, source, configuration>>

\* time passes for the buffer of a running worker: flush_interval has elapsed
WorkerTick(w) ==
    /\ handlers[w].pc = "running"
    /\ ~handlers[w].elapsed
    /\ handlers' = [handlers EXCEPT ![w].elapsed = TRUE]
    /\ last' = Outcome("worker", "none", 0, 0, <<>>)
    /\ UNCHANGED <<workerFrame, files, source, configuration>>

\* the outcomes of a call the request makes: both when it makes the call,
\* only the one that changes nothing when it does not reach it
Outcomes(reached) == IF reached THEN BOOLEAN ELSE {FALSE}

Next ==
    \/ \E valid \in BOOLEAN :
          \E setupFails \in Outcomes(valid /\ state = "RESET") :
             LoadUserApplication(valid, setupFails)
    \/ \E hookFails \in Outcomes(SetResetHook(state) = "teardown") : SetReset(hookFails)
    \/ \E hookFails \in Outcomes(SetStoppedHook(state) = "setup") : SetStopped(hookFails)
    \/ StopRunBegin
    \/ StopRunEnd
    \/ \E failAt \in IF SetRunningHook(state) = "start_run"
                     THEN StartRunFailures \cup {"none"} ELSE {"none"} :
          SetRunning(failAt)
    \/ SetPaused
    \/ \E w \in HandlerIds :
          \/ WorkerRun(w)
          \/ WorkerAcquire(w)
          \/ WorkerFlush(w)
          \/ WorkerExit(w)
          \/ WorkerTick(w)

Spec == Init /\ [][Next]_vars

(***************************************************************************)
(* FaultSpec: the run control with a source that can fail: read_packet()   *)
(* may raise, and may block for ever once the source has nothing to read.  *)
(***************************************************************************)
FaultNext ==
    \/ Next
    \/ \E w \in HandlerIds :
          \/ WorkerBlock(w)
          \/ WorkerRaise(w)

FaultSpec == Init /\ [][FaultNext]_vars

(***************************************************************************)
(* PktSpec: the packet classes built by the packetclass decorator.  A      *)
(* packet class is the sequence of its annotated fields, each with a       *)
(* struct format character and, when the class gives the field a value,    *)
(* the constant expected there.  The formats of the model are 'B'          *)
(* (unsigned char), 'H' (unsigned short) and '?' (bool); the layout is     *)
(* '>' (big-endian, no padding).  An instance is the record of its field   *)
(* values, its cached payload and what __post_init__ derived.              *)
(***************************************************************************)
PktField(name, format, expected) ==
    [name |-> name, format |-> format, expected |-> expected]

\* tests/test_pkt.py Readout, with the 'L' and 'H' fields one size down;
\* derived is the field __post_init__ computes seconds from
Readout ==
    [fields |-> <<PktField("header", "B", <<HeaderByte>>),
                  PktField("milliseconds", "H", None),
                  PktField("adc_value", "B", None)>>,
     derived |-> <<"milliseconds">>]

\* a packet class whose expected header is zero
ZeroHeaderPacket ==
    [fields |-> <<PktField("header", "B", <<0>>), PktField("value", "B", None)>>,
     derived |-> None]

\* a packet class with a bool field
FlagPacket ==
    [fields |-> <<PktField("flag", "?", None), PktField("value", "B", None)>>,
     derived |-> None]

PacketClasses == {Readout, ZeroHeaderPacket, FlagPacket}

\* struct.calcsize of one format character
FormatSize(c) == IF c = "H" THEN 2 ELSE 1

\* the largest value struct.pack accepts for an unsigned format
MaxValue(c) == IF c = "H" THEN ByteRange * ByteRange - 1 ELSE ByteRange - 1

\* struct.pack raises struct.error for an integer out of range; '?' takes
\* the truth value of anything
Packable(c, v) == IF c = "?" THEN TRUE ELSE 0 <= v /\ v <= MaxValue(c)

\* struct.pack of one value, big-endian
EncodeField(c, v) ==
    IF c = "H" THEN <<v \div ByteRange, v % ByteRange>>
    ELSE IF c = "?" THEN <<IF v # 0 THEN 1 ELSE 0>>
    ELSE <<v>>

\* struct.unpack of one value, big-endian; a bool comes back as True or
\* False, which compare equal to 1 and 0
DecodeField(c, b) ==
    IF c = "H" THEN b[1] * ByteRange + b[2]
    ELSE IF c = "?" THEN (IF b[1] # 0 THEN 1 ELSE 0)
    ELSE b[1]

RECURSIVE CalcSize(_)
\* struct.calcsize(cls._format)
CalcSize(fields) ==
    IF fields = <<>> THEN 0
    ELSE FormatSize(Head(fields).format) + CalcSize(Tail(fields))

AllPackable(fields, values) ==
    \A i \in 1 .. Len(fields) : Packable(fields[i].format, values[i])

RECURSIVE PackValues(_, _)
\* struct.pack(cls._format, *values), for values that are all in range
PackValues(fields, values) ==
    IF fields = <<>> THEN <<>>
    ELSE EncodeField(Head(fields).format, Head(values))
         \o PackValues(Tail(fields), Tail(values))

RECURSIVE UnpackValues(_, _)
\* struct.unpack(cls._format, data), for data of the right length
UnpackValues(fields, data) ==
    IF fields = <<>> THEN <<>>
    ELSE LET n == FormatSize(Head(fields).format)
         IN  <<DecodeField(Head(fields).format, SubSeq(data, 1, n))>>
             \o UnpackValues(Tail(fields), SubSeq(data, n + 1, Len(data)))

\* a test of the expected value that skips a constant of zero
FieldMismatchTruthy(field, value) ==
    field.expected # None /\ field.expected # <<0>> /\ field.expected # <<value>>

\* _init: expected is not None and expected != value
FieldMismatch(field, value) ==
    field.expected # None /\ field.expected # <<value>>

\* __post_init__ of the class: the derived fields, computed from the fields
PostInit(cls, values) ==
    IF cls.derived = None THEN None
    ELSE LET i == CHOOSE k \in 1 .. Len(cls.fields) : cls.fields[k].name = cls.derived[1]
         IN  <<values[i]>>

NoPacket(error) == [error |-> error, values |-> <<>>, payload |-> <<>>, derived |-> None]

\* the constructor packetclass gives the class: cls(*args, payload=payload),
\* payload None or <<bytes>>
PacketInit(cls, args, payload) ==
    IF Len(args) # Len(cls.fields) THEN NoPacket("TypeError")
    ELSE IF \E i \in 1 .. Len(args) : FieldMismatch(cls.fields[i], args[i])
    THEN NoPacket("FieldMismatchError")
    ELSE IF payload = None /\ ~AllPackable(cls.fields, args)
    THEN NoPacket("struct.error")
    ELSE [error |-> "none", values |-> args,
          payload |-> IF payload = None THEN PackValues(cls.fields, args)
                      ELSE payload[1],
          derived |-> PostInit(cls, args)]

\* FixedSizePacketBase.pack
Pack(cls, packet) == PackValues(cls.fields, packet.values)

\* FixedSizePacketBase.unpack
UnpackPacket(cls, data) ==
    IF Len(data) # CalcSize(cls.fields) THEN NoPacket("struct.error")
    ELSE PacketInit(cls, UnpackValues(cls.fields, data), <<data>>)

\* the values tried for a field: the ends of the range of its format, the
\* first value beyond it, and the expected constant with its neighbour
FieldSamples(field) ==
    {0, 1, 2, MaxValue(field.format), MaxValue(field.format) + 1}
    \cup (IF field.expected = None THEN {}
          ELSE {field.expected[1], field.expected[1] + 1})

\* the argument lists tried for a class: one value per field, or one short
ArgSamples(cls) ==
    LET n == Len(cls.fields)
        full == {a \in [1 .. n -> UNION {FieldSamples(cls.fields[i]) : i \in 1 .. n}] :
                    \A i \in 1 .. n : a[i] \in FieldSamples(cls.fields[i])}
    IN  full \cup {SubSeq(a, 1, n - 1) : a \in full}

\* the byte strings tried for a class: what packs from argument lists in
\* range, whatever the expected constants, and the same one byte short
DataSamples(cls) ==
    LET packed == {PackValues(cls.fields, a) :
                      a \in {b \in ArgSamples(cls) :
                                /\ Len(b) = Len(cls.fields)
                                /\ AllPackable(cls.fields, b)}}
    IN  packed \cup {SubSeq(d, 1, Len(d) - 1) : d \in packed}

\* no buffer is involved: the handler class is the unbounded one
PktInit == Init /\ bufcfg.max_size = None

\* packet = cls(*args)
PktConstruct(cls, args) ==
    /\ last' = [Outcome("construct", PacketInit(cls, args, None).error, 0, 0, <<>>)
                  EXCEPT !.args = [cls |-> cls, args |-> args,
                                   packet |-> PacketInit(cls, args, None)]]
    /\ UNCHANGED <<rcVars, handlers, files, source, configuration>>

\* twin = cls.unpack(packet.pack()) for a packet that was constructed
PktRoundTrip(cls, args) ==
    LET packet == PacketInit(cls, args, None)
        data == Pack(cls, packet)
        twin == UnpackPacket(cls, data)
    IN  /\ packet.error = "none"
        /\ last' = [Outcome("round_trip", twin.error, 0, Len(data), <<>>)
                      EXCEPT !.args = [cls |-> cls, packet |-> packet,
                                       data |-> data, twin |-> twin]]
        /\ UNCHANGED <<rcVars, handlers, files, source, configuration>>

\* packet = cls.unpack(data); the bytes object handed in is immutable
PktUnpack(cls, data) ==
    /\ last' = [Outcome("unpack", UnpackPacket(cls, data).error, 0, Len(data), <<>>)
                  EXCEPT !.args = [cls |-> cls, data |-> data,
                                   packet |-> UnpackPacket(cls, data)]]
    /\ UNCHANGED <<rcVars, handlers, files, source, configuration>>

PktNext ==
    \E cls \in PacketClasses :
       \/ \E args \in ArgSamples(cls) : PktConstruct(cls, args)
       \/ \E args \in ArgSamples(cls) : PktRoundTrip(cls, args)
       \/ \E data \in DataSamples(cls) : PktUnpack(cls, data)

PktSpec == PktInit /\ [][PktNext]_vars

(***************************************************************************)
(* CfgSpec: a configuration (core/config.py) constructed from its          *)
(* PARAMETER_SPECS, its parameters set one by one and updated from files.  *)
(* A value is paired with the name of its Python class; a float is         *)
(* stood for by an integer paired with "float".  A parameter is            *)
(* the record of its type_name, its value (None until one is accepted) and *)
(* its constraints, a function from constraint names to their settings.    *)
(***************************************************************************)
MaxEntries == 2     \* entries of a configuration file

Value(type, v) == <<type, v>>

\* value.__class__.__name__
ClassName(value) == value[1]

Raw(value) == value[2]

VALID_CONSTRAINTS(type_name) ==
    IF type_name = "int" THEN {"choices", "step", "min", "max"}
    ELSE IF type_name = "float" THEN {"min", "max"}
    ELSE IF type_name = "str" THEN {"choices"}
    ELSE {}

\* a range check that does not look at max
CheckRangeMinOnly(constraints, v) ==
    IF "min" \in DOMAIN constraints /\ v < constraints["min"] THEN "NUMBER_TOO_SMALL"
    ELSE "PARAMETER_VALID"

CheckRange(constraints, v) ==
    IF "min" \in DOMAIN constraints /\ v < constraints["min"] THEN "NUMBER_TOO_SMALL"
    ELSE IF "max" \in DOMAIN constraints /\ v > constraints["max"] THEN "NUMBER_TOO_LARGE"
    ELSE "PARAMETER_VALID"

CheckChoice(constraints, v) ==
    IF "choices" \in DOMAIN constraints /\ v \notin constraints["choices"]
    THEN "INVALID_CHOICE"
    ELSE "PARAMETER_VALID"

CheckStep(constraints, v) ==
    LET delta == v - (IF "min" \in DOMAIN constraints THEN constraints["min"] ELSE 0)
    IN  IF "step" \in DOMAIN constraints /\ delta % constraints["step"] # 0
        THEN "INVALID_STEP"
        ELSE "PARAMETER_VALID"

\* choice first, then range, then step
CheckInt(constraints, v) ==
    IF CheckChoice(constraints, v) # "PARAMETER_VALID" THEN CheckChoice(constraints, v)
    ELSE IF CheckRange(constraints, v) # "PARAMETER_VALID" THEN CheckRange(constraints, v)
    ELSE CheckStep(constraints, v)

CheckFloat(constraints, v) == CheckRange(constraints, v)

CheckStr(constraints, v) == CheckChoice(constraints, v)

\* set_value: the parameter afterwards and the code returned
SetValue(parameter, value) ==
    LET error_code ==
            IF ClassName(value) # parameter.type_name THEN "INVALID_TYPE"
            ELSE IF parameter.type_name = "int" THEN CheckInt(parameter.constraints, Raw(value))
            ELSE IF parameter.type_name = "float" THEN CheckFloat(parameter.constraints, Raw(value))
            ELSE IF parameter.type_name = "str" THEN CheckStr(parameter.constraints, Raw(value))
            ELSE "PARAMETER_VALID"
    IN  [parameter |-> IF error_code = "PARAMETER_VALID"
                       THEN [parameter EXCEPT !.value = <<value>>]
                       ELSE parameter,
         error |-> error_code]

\* the constructor: constraints not valid for the type are removed, the
\* value starts as None and the default goes through set_value
ConfigurationParameter(type_name, value, constraints) ==
    SetValue([type_name |-> type_name, value |-> None,
              constraints |-> [k \in DOMAIN constraints \cap VALID_CONSTRAINTS(type_name)
                                  |-> constraints[k]]],
             value).parameter

\* the PARAMETER_SPECS of the configuration class, without the defaults
PARAMETER_SPECS ==
    [port |-> [type_name |-> "int", constraints |-> [min |-> 1, max |-> 5, step |-> 2]],
     level |-> [type_name |-> "str", constraints |-> [choices |-> {"DEBUG", "INFO"}]],
     timeout |-> [type_name |-> "float", constraints |-> [min |-> 0, step |-> 2]],
     enable |-> [type_name |-> "bool", constraints |-> <<>>]]

\* the values tried: each type around the constraints of its parameter
ValueSamples ==
    {Value("int", v) : v \in {0, 1, 2, 5, 7}}
    \cup {Value("float", v) : v \in {-1, 0}}
    \cup {Value("str", v) : v \in {"DEBUG", "FAKE"}}
    \cup {Value("bool", FALSE)}

\* the defaults tried for a parameter: one that its checks accept and one
\* that they do not
DefaultSamples(name) ==
    IF name = "port" THEN {Value("int", 3), Value("int", 2)}
    ELSE IF name = "level" THEN {Value("str", "INFO"), Value("str", "FAKE")}
    ELSE IF name = "timeout" THEN {Value("float", 1), Value("float", -1)}
    ELSE {Value("bool", TRUE), Value("int", 1)}

\* ConfigurationBase.__init__: add_parameter for each of the specs
ConfigurationBase(defaults) ==
    [name \in DOMAIN PARAMETER_SPECS |->
        ConfigurationParameter(PARAMETER_SPECS[name].type_name, defaults[name],
                               PARAMETER_SPECS[name].constraints)]

\* update_value: self[key].set_value(value), the code returned is dropped
UpdateValue(conf, key, value) ==
    IF key \notin DOMAIN conf THEN [conf |-> conf, error |-> "KeyError"]
    ELSE [conf |-> [conf EXCEPT ![key] = SetValue(conf[key], value).parameter],
          error |-> "none"]

RECURSIVE Read(_, _)
\* read: update_value for each entry of the file, in the order of the file
Read(conf, data) ==
    IF data = <<>> THEN [conf |-> conf, error |-> "none"]
    ELSE LET u == UpdateValue(conf, Head(data).key, Head(data).value)
         IN  IF u.error # "none" THEN u ELSE Read(u.conf, Tail(data))

\* the entries tried in a file: values the parameters accept, one that its
\* parameter does not, and a key the configuration does not have
EntrySamples ==
    {[key |-> "port", value |-> Value("int", 5)],
     [key |-> "port", value |-> Value("int", 7)],
     [key |-> "level", value |-> Value("str", "DEBUG")],
     [key |-> "fake_field", value |-> Value("int", 3)]}

FileSamples == UNION {[1 .. n -> EntrySamples] : n \in 0 .. MaxEntries}

\* no buffer is involved: the handler class is the unbounded one
CfgInit == Init /\ bufcfg.max_size = None

\* configuration = the configuration class()
CfgConstruct(defaults) ==
    /\ DOMAIN configuration = {}
    /\ configuration' = ConfigurationBase(defaults)
    /\ last' = [Outcome("construct", "none", 0, 0, <<>>)
                  EXCEPT !.args = [defaults |-> defaults]]
    /\ UNCHANGED <<rcVars, handlers, files, source>>

\* configuration[key].set_value(value)
CfgSetValue(key, value) ==
    /\ key \in DOMAIN configuration
    /\ configuration' = [configuration EXCEPT
                            ![key] = SetValue(configuration[key], value).parameter]
    /\ last' = [Outcome("set_value", SetValue(configuration[key], value).error, 0, 0, <<>>)
                  EXCEPT !.args = [key |-> key, value |-> value,
                                   before |-> configuration]]
    /\ UNCHANGED <<rcVars, handlers, files, source>>

\* configuration.read(file_path), data being what json.load gives
CfgRead(data) ==
    /\ DOMAIN configuration # {}
    /\ configuration' = Read(configuration, data).conf
    /\ last' = [Outcome("read", Read(configuration, data).error, 0, 0, <<>>)
                  EXCEPT !.args = [data |-> data, before |-> configuration]]
    /\ UNCHANGED <<rcVars, handlers, files, source>>

CfgNext ==
    \/ \E port \in DefaultSamples("port"), level \in DefaultSamples("level"),
          timeout \in DefaultSamples("timeout"), enable \in DefaultSamples("enable") :
          CfgConstruct([port |-> port, level |-> level, timeout |-> timeout,
                        enable |-> enable])
    \/ \E key \in DOMAIN PARAMETER_SPECS, value \in ValueSamples : CfgSetValue(key, value)
    \/ \E data \in FileSamples : CfgRead(data)

CfgSpec == CfgInit /\ [][CfgNext]_vars

(***************************************************************************)
(* Properties of the buffer and the event handler (BufSpec).               *)
(***************************************************************************)
RECURSIVE PacketsOutput(_, _)
\* what a sink receives for the packets ps, oldest first: the payload of each
\* for the canonical sink, the projection of each for a projection sink
PacketsOutput(ps, canonical) ==
    IF ps = <<>> THEN <<>>
    ELSE (IF canonical THEN Payload(Head(ps)) ELSE AsText(Head(ps)))
         \o PacketsOutput(Tail(ps), canonical)

SinkPathsOf(h) == {h.sinks[k].path : k \in 1 .. Len(h.sinks)}

StrictlyIncreasing(q) == \A i, j \in 1 .. Len(q) : i < j => q[i] < q[j]

\* C4: with no put running concurrently, when flush() returns (n, _) every
\* attached sink's file has grown by exactly the output of the n oldest queued
\* packets (payloads for the canonical sink, projections for a projection
\* sink), the queue is exactly n packets shorter and no other file is written.
C4_FlushFanOut ==
    [][(last'.op \in {"flush", "flush_buffer"} /\ last'.error = "none") =>
         LET h == handlers[1]
             n == last'.n
             oldest == SubSeq(h.queue, 1, n)
         IN  /\ n <= Len(h.queue)
             /\ handlers'[1].queue = SubSeq(h.queue, n + 1, Len(h.queue))
             /\ DOMAIN files' = DOMAIN files
             /\ \A k \in 1 .. Len(h.sinks) :
                   files'[h.sinks[k].path] =
                       files[h.sinks[k].path] \o PacketsOutput(oldest, k = 1)
             /\ \A p \in DOMAIN files : p \notin SinkPathsOf(h) => files'[p] = files[p]
      ]_vars

\* C4 witness: a flush returned n = 2 on a buffer with a canonical and a
\* projection sink, and both files hold the two packets
C4_Witness ==
    /\ last.op = "flush" /\ last.error = "none" /\ last.n = 2
    /\ Len(handlers[1].sinks) = 2
    /\ Len(files[handlers[1].sinks[1].path]) = 2 * PacketSize
    /\ Len(files[handlers[1].sinks[2].path]) > Len(TextHeader)

\* C9: over any sequence of put and flush calls the canonical sink's content
\* is the concatenation of the payloads of the flushed packets in put order:
\* no packet is written twice, skipped or reordered across flushes.  (Every
\* packet put so far is exactly one of: written, still queued behind all the
\* written ones, or removed by an overflow or a clear.)
C9_CanonicalOrder ==
    LET h == handlers[1]
    IN  Len(h.sinks) > 0 =>
          LET content == files[h.sinks[1].path]
              written == Unpack(content)
          IN  /\ content = PacketsOutput(written, TRUE)
              /\ StrictlyIncreasing(written)
              /\ StrictlyIncreasing(h.queue)
              /\ \A i \in 1 .. Len(written), j \in 1 .. Len(h.queue) :
                    written[i] < h.queue[j]
              /\ Range(written) \cap h.discarded = {}
              /\ Range(h.queue) \cap h.discarded = {}
              /\ \A p \in 1 .. (source - 1) :
                    p \in Range(written) \cup Range(h.queue) \cup h.discarded

\* C9 witness: two successive flushes wrote packets to the canonical sink
C9_Witness ==
    /\ Len(handlers[1].sinks) > 0
    /\ last.op = "flush" /\ last.n = 1
    /\ Len(files[handlers[1].sinks[1].path]) = 2 * PacketSize

\* C10: flush() returns as its second component the number of bytes it wrote
\* to the canonical sink, so after any sequence of acquire_packet and
\* flush_buffer calls bytes_written equals the length of the canonical data
\* file, which equals packets_written times the packet size.
C10_BytesWritten ==
    LET h == handlers[1]
    IN  (Len(h.sinks) > 0 /\ ~h.direct) =>
           /\ h.bytes_written = Len(files[h.sinks[1].path])
           /\ Len(files[h.sinks[1].path]) = h.packets_written * PacketSize

IsCanonical(sink) == sink.formatter = "none"

\* C11: add_sink with a projection on a buffer that has no sink fails, creates
\* no file and leaves the sink list empty; add_sink with a projection on a
\* fresh path succeeds if and only if a canonical sink is already attached; so
\* the first sink of a buffer is always canonical.
C11_FirstSinkCanonical ==
    [][/\ (IF last'.op = "add_sink" THEN last'.args.formatter # "none" ELSE FALSE) =>
             LET h == handlers[1]
                 attached == \E k \in 1 .. Len(h.sinks) : IsCanonical(h.sinks[k])
             IN  /\ Len(h.sinks) = 0 =>
                       /\ last'.error # "none"
                       /\ files' = files
                       /\ handlers'[1].sinks = <<>>
                 /\ last'.args.path \notin DOMAIN files =>
                       (last'.error = "none" <=> attached)
                 /\ last'.error = "none" =>
                       /\ Len(handlers'[1].sinks) = Len(h.sinks) + 1
                       /\ last'.args.path \in DOMAIN files'
       /\ Len(handlers'[1].sinks) > 0 => IsCanonical(handlers'[1].sinks[1])
      ]_vars

\* C11 witness: a projection sink was attached behind the canonical sink
C11_Witness ==
    /\ last.op = "add_sink" /\ last.error = "none"
    /\ Len(handlers[1].sinks) = 2
    /\ IsCanonical(handlers[1].sinks[1]) /\ ~IsCanonical(handlers[1].sinks[2])

\* the last step created a sink, directly or through add_sink
SinkRequested == last'.op \in {"sink", "add_sink"}

\* C12 as stated: creating a sink, directly or through add_sink, at a path
\* that already exists fails with a file-exists error, leaves the existing
\* file's content unchanged and leaves the buffer's sink list unchanged; a sink
\* never overwrites or truncates data.
C12_SinkNonOverwrite ==
    [][SinkRequested =>
         /\ last'.args.path \in DOMAIN files =>
               /\ last'.error = "FileExistsError"
               /\ files' = files
               /\ handlers'[1].sinks = handlers[1].sinks
         /\ \A p \in DOMAIN files : files'[p] = files[p]
      ]_vars

\* C12 amended: creating a sink, directly or through add_sink, at a path that
\* already exists fails, leaves every file and the sink list unchanged; the
\* error is the file-exists error, except for an add_sink with a projection on
\* a buffer without sinks, which fails with the first-sink error before the
\* path is looked at.  A sink never overwrites or truncates data.
C12_SinkNonOverwriteAmended ==
    [][SinkRequested =>
         /\ last'.args.path \in DOMAIN files =>
               /\ last'.error =
                     (IF /\ last'.op = "add_sink"
                         /\ last'.args.formatter # "none"
                         /\ Len(handlers[1].sinks) = 0
                      THEN "RuntimeError" ELSE "FileExistsError")
               /\ files' = files
               /\ handlers'[1].sinks = handlers[1].sinks
         /\ \A p \in DOMAIN files : files'[p] = files[p]
      ]_vars

\* C12 witness: add_sink on the path of an attached sink that holds data failed
C12_Witness ==
    /\ last.op = "add_sink" /\ last.error = "FileExistsError"
    /\ Len(handlers[1].sinks) = 1
    /\ handlers[1].sinks[1].path = last.args.path
    /\ Len(files[last.args.path]) > 0

\* C13: flush() on a buffer with no attached sink fails with an error and
\* leaves the queue contents, the queue size and the last-flush time unchanged
\* (and no file is touched), for a FIFO and for a CircularBuffer.
C13_FlushWithoutSink ==
    [][(last'.op \in {"flush", "flush_buffer"} /\ Len(handlers[1].sinks) = 0) =>
         /\ last'.error = "RuntimeError"
         /\ handlers'[1].queue = handlers[1].queue
         /\ Size(handlers'[1]) = Size(handlers[1])
         /\ handlers'[1].elapsed = handlers[1].elapsed
         /\ handlers'[1].packets_written = handlers[1].packets_written
         /\ files' = files
      ]_vars

\* C13 witness: flush() failed on a FIFO without sinks that holds packets and
\* whose flush interval has elapsed
C13_Witness ==
    /\ last.op = "flush" /\ last.error = "RuntimeError"
    /\ bufcfg.class = "FIFO"
    /\ handlers[1].sinks = <<>>
    /\ Len(handlers[1].queue) = 2
    /\ handlers[1].elapsed

\* the watermark flush_size is set and the queue holds flush_size + k packets
QueuedAtWatermark(k) ==
    IF bufcfg.flush_size = None THEN FALSE
    ELSE Len(handlers[1].queue) = bufcfg.flush_size[1] + k

\* C14: flush_needed() is true if and only if the queue length is at least
\* flush_size (when flush_size is set) or the time since the last flush exceeds
\* flush_interval; with the interval not elapsed it is false with flush_size - 1
\* packets queued and true with flush_size packets queued.
C14_FlushNeeded ==
    LET h == handlers[1]
        watermark == IF bufcfg.flush_size = None THEN FALSE
                     ELSE Len(h.queue) >= bufcfg.flush_size[1]
    IN  h.pc = "created" =>
          /\ FlushNeeded(h, bufcfg) <=> (watermark \/ h.elapsed)
          /\ (QueuedAtWatermark(-1) /\ ~h.elapsed) => ~FlushNeeded(h, bufcfg)
          /\ (QueuedAtWatermark(0) /\ ~h.elapsed) => FlushNeeded(h, bufcfg)

\* C14 witness: a put has brought the queue to flush_size packets, the
\* interval has not elapsed and flush_needed() is true
C14_Witness ==
    /\ last.op = "put"
    /\ QueuedAtWatermark(0)
    /\ ~handlers[1].elapsed
    /\ FlushNeeded(handlers[1], bufcfg)

\* C15: constructing a buffer fails with a sizing error exactly when both
\* max_size and flush_size are set and max_size <= flush_size; in every other
\* case, in particular a FIFO or a CircularBuffer given a flush_size and no
\* max_size, construction succeeds.
C15_SizingError ==
    last.op = "construct" =>
       LET undersized == IF bufcfg.max_size = None \/ bufcfg.flush_size = None THEN FALSE
                         ELSE bufcfg.max_size[1] <= bufcfg.flush_size[1]
       IN  /\ last.error # "none" <=> undersized
           /\ last.error = "none" <=> handlers[1].pc = "created"

\* C16: for every sequence of put, add_sink, flush and clear calls that never
\* fills the queue, a FIFO and a CircularBuffer behave identically: same
\* results, same errors, same queue (hence the same length) and the same bytes
\* in every sink, including when a projection sink is attached.
C16_SameBehaviour ==
    /\ handlers[1].queue = handlers[2].queue
    /\ Len(handlers[1].sinks) = Len(handlers[2].sinks)
    /\ \A name \in SinkNames :
          /\ <<1, name>> \in DOMAIN files <=> <<2, name>> \in DOMAIN files
          /\ <<1, name>> \in DOMAIN files => files[<<1, name>>] = files[<<2, name>>]
    /\ IF last.op = "init" THEN TRUE
       ELSE /\ last.error[1] = last.error[2]
            /\ last.n[1] = last.n[2]
            /\ last.bytes[1] = last.bytes[2]

\* the last m elements of q
LastOf(q, m) == IF Len(q) <= m THEN q ELSE SubSeq(q, Len(q) - m + 1, Len(q))

\* q holds the packets put last, in put order, when next is the number of the
\* next packet of the source
MostRecent(q, next) == \A i \in 1 .. Len(q) : q[i] = next - 1 - Len(q) + i

\* C17: a CircularBuffer with max_size = M never holds more than M packets and
\* its put never blocks: a put on a full buffer discards the oldest queued
\* packet, so the queue always holds the most recent (at most M) unflushed
\* packets in put order.  (That a queued packet is in no file is part of C9.)
C17_CircularOverflow ==
    [][(bufcfg.class = "CircularBuffer" /\ handlers[1].pc = "created") =>
         LET q == handlers[1].queue
             qn == handlers'[1].queue
         IN  /\ CanPut(q, bufcfg)
             /\ IF bufcfg.max_size = None THEN TRUE
                ELSE /\ Len(qn) <= bufcfg.max_size[1]
                     /\ last'.op = "put" =>
                           qn = LastOf(q \o <<source>>, bufcfg.max_size[1])
             /\ MostRecent(qn, source')
      ]_vars

\* C17 witness: a put on a full CircularBuffer has discarded the oldest packet
C17_Witness ==
    /\ bufcfg.class = "CircularBuffer" /\ bufcfg.max_size # None
    /\ last.op = "put"
    /\ handlers[1].discarded # {}
    /\ Len(handlers[1].queue) = bufcfg.max_size[1]
    /\ \A d \in handlers[1].discarded : d < handlers[1].queue[1]

(***************************************************************************)
(* Properties of the run control (Spec).                                   *)
(***************************************************************************)
FsmRequests == {"set_reset", "set_stopped", "set_running", "set_paused"}

\* the (state, request) pairs that are accepted
AllowedRequests ==
    {<<"RESET", "set_stopped">>, <<"RUNNING", "set_stopped">>, <<"PAUSED", "set_stopped">>,
     <<"STOPPED", "set_running">>, <<"PAUSED", "set_running">>,
     <<"RUNNING", "set_paused">>,
     <<"STOPPED", "set_reset">>}

Alive(h) == h.pc \in {"submitted", "running", "flushing", "blocked"}

\* the worker is inside the loop of run()
InLoop(h) == h.pc \in {"running", "flushing", "blocked"}

\* C1: from every FSM state the accepted requests are exactly set_stopped from
\* RESET, RUNNING or PAUSED, set_running from STOPPED or PAUSED, set_paused
\* from RUNNING and set_reset from STOPPED; every other (state, request) pair
\* fails with InvalidFsmTransitionError and leaves the state unchanged.
C1_TransitionTotality ==
    [][last'.op \in FsmRequests =>
         IF <<state, last'.op>> \in AllowedRequests
         THEN last'.error # "InvalidFsmTransitionError"
         ELSE /\ last'.error = "InvalidFsmTransitionError"
              /\ state' = state
              /\ last'.emitted = <<>>
      ]_vars

\* C1 witness: set_running in RESET failed and the state is still RESET
C1_Witness ==
    /\ last.op = "set_running" /\ last.from = "RESET"
    /\ last.error = "InvalidFsmTransitionError"
    /\ state = "RESET"

\* C2: if the hook run by a transition request raises an exception, the FSM
\* state after the request equals the state before it and no state_changed
\* event is emitted for that request.
C2_HookErrorKeepsState ==
    [][(last'.op \in FsmRequests \cup {"load_user_application"}
          /\ last'.error \notin {"none", "pending", "InvalidFsmTransitionError"}) =>
         (state' = state /\ last'.emitted = <<>>)
      ]_vars

\* C2 witness: start_run raised after the run id was incremented; still STOPPED
C2_Witness ==
    /\ last.op = "set_running" /\ last.from = "STOPPED" /\ last.error = "HookError"
    /\ run_id > 0
    /\ state = "STOPPED"

\* C3: every STOPPED -> RUNNING transition increases run_id by exactly 1, and
\* the new value is in the run-id config file before the output folder is
\* created and before the worker is started, that is before any data of the
\* run is written: at no time, not even when start_run is aborted half way,
\* does a folder, a handler or a data file of a run exist whose run id is not
\* yet in the file.
C3_RunIdPersistedFirst ==
    [][/\ (state = "STOPPED" /\ state' = "RUNNING") =>
             (run_id' = run_id + 1 /\ run_cfg' = run_id')
       /\ \A r \in folders' : r <= run_cfg'
       /\ \A w \in HandlerIds :
             handlers'[w].pc # "none" => (w <= run_cfg' /\ w \in folders')
       /\ \A p \in DOMAIN files' : (p[1] <= run_cfg' /\ p[1] \in folders')
      ]_vars

\* C3 witness: the second run was started and wrote data
C3_Witness ==
    /\ state = "RUNNING" /\ run_id = 2 /\ run_cfg = 2
    /\ 2 \in folders
    /\ Len(files[DataFilePath(2)]) > 0

\* a run whose handler is h has ended once the FSM is at rest in STOPPED or
\* RESET, or a later run was started
RunEnded(w) ==
    /\ handlers[w].pc # "none"
    /\ ctl = "idle"
    /\ (state \in {"STOPPED", "RESET"} \/ w < run_id)

\* C5: when a run that acquired N packets (without queue overflow) ends with
\* the FSM in STOPPED, the buffer is empty and the canonical data file holds
\* exactly those N packets, so packets_written = packets_processed = N.
C5_RunFullyWritten ==
    \A w \in HandlerIds :
       (RunEnded(w) /\ handlers[w].discarded = {}) =>
          /\ handlers[w].queue = <<>>
          /\ handlers[w].packets_written = handlers[w].packets_processed
          /\ Len(Unpack(files[DataFilePath(w)])) = handlers[w].packets_processed

\* C6: in RUNNING, with a worker whose read_packet always returns,
\* set_stopped() succeeds and leaves the FSM in STOPPED.  The request waits in
\* waitForDone() for every runnable of the pool, and only a runnable whose
\* loop finds the running flag cleared returns: so the request succeeds only
\* if every runnable the wait is for has been started with the flag cleared.
C6_SetStoppedSucceeds ==
    /\ ctl = "join" =>
          \A w \in HandlerIds :
             InLoop(handlers[w]) => ~handlers[w].running
    /\ (last.op = "set_stopped" /\ last.from = "RUNNING" /\ last.error # "pending") =>
          /\ state = "STOPPED"
          /\ ~update_timer
          /\ stop_timestamp # None
          /\ ~log_file_handler_id

\* C7: an acquisition worker executes its loop only while the FSM is RUNNING:
\* with the FSM at rest in PAUSED, STOPPED or RESET no worker is running, and
\* at most one worker exists at any time.
C7_WorkerOnlyWhileRunning ==
    /\ (ctl = "idle" /\ state \in {"PAUSED", "STOPPED", "RESET"}) =>
          \A w \in HandlerIds : ~InLoop(handlers[w])
    /\ Cardinality({w \in HandlerIds : Alive(handlers[w])}) <= 1

\* C8: if read_packet always returns, then after stop() is called on a worker
\* that has been submitted for execution, at any point including before run()
\* has executed its first statement, the acquisition loop exits and the join
\* in the stop path returns.  The loop exits only by finding the running flag
\* cleared, and the stop path clears it once: so the flag cleared by stop()
\* must stay cleared for as long as the stop path waits for the worker.
C8_StopEndsLoop ==
    [][(ctl = "join" /\ ctl' = "join" /\ ~handlers[event_handler].running) =>
          ~handlers'[event_handler].running
      ]_vars

\* C18: flush() on one buffer is never executed by two threads at the same
\* time.  The control thread flushes only in the step that ends the stop path
\* (the final flush_buffer), and it takes that step on the buffer of a handler
\* whose worker is not inside its inline flush, nor anywhere else in run();
\* and two workers inside their inline flushes never have a sink in common.
C18_FlushSerialized ==
    [][/\ (ctl = "join" /\ ctl' = "idle") =>
             /\ handlers[event_handler].pc # "flushing"
             /\ ~Alive(handlers[event_handler])
             /\ \A w \in HandlerIds :
                   (handlers[w].pc = "flushing" /\ w # event_handler) =>
                      SinkPathsOf(handlers[w]) \cap SinkPathsOf(handlers[event_handler]) = {}
       /\ \A w1, w2 \in HandlerIds :
             (w1 # w2 /\ handlers'[w1].pc = "flushing" /\ handlers'[w2].pc = "flushing") =>
                SinkPathsOf(handlers'[w1]) \cap SinkPathsOf(handlers'[w2]) = {}
      ]_vars

\* C18 witness: a stop request waited for the worker and its final flush, on
\* the control thread, wrote one packet to the data file after the worker's
\* inline flush had written another one to it (the request then goes on to
\* update_stats(), where it fails)
C18_Witness ==
    /\ last.op = "set_stopped" /\ last.from = "RUNNING"
    /\ last.error = "AttributeError" /\ event_handler = NoHandler
    /\ last.n = 1
    /\ run_id \in HandlerIds
    /\ handlers[run_id].packets_written = 2
    /\ Len(files[DataFilePath(run_id)]) = 2 * PacketSize

\* C19: after load_user_application(app) has returned successfully from RESET
\* the FSM is still in RESET with the application loaded, and a set_stopped()
\* that follows it succeeds, calls the application's setup() exactly once and
\* leaves the FSM in STOPPED.
C19_LoadThenSetStopped ==
    [][/\ (last'.op = "load_user_application" /\ last'.error = "none") =>
             /\ state' = "RESET"
             /\ user_application'
       /\ (/\ last.op = "load_user_application" /\ last.error = "none"
           /\ last'.op = "set_stopped") =>
             /\ last'.error = "none"
             /\ last'.setups = 1
             /\ state' = "STOPPED"
      ]_vars

\* C20: load_user_application(app) called while the FSM is in STOPPED, RUNNING
\* or PAUSED fails, and leaves the FSM state and the application loaded before
\* unchanged (no state_changed event is emitted either).
C20_LoadOnlyInReset ==
    [][(last'.op = "load_user_application" /\ state \in {"STOPPED", "RUNNING", "PAUSED"}) =>
          /\ last'.error = "RuntimeError"
          /\ state' = state
          /\ user_application' = user_application
          /\ last'.emitted = <<>>
      ]_vars

\* C20 witness: with a run going on and an application loaded, the load of a
\* valid application has just failed
C20_Witness ==
    /\ last.op = "load_user_application" /\ last.error = "RuntimeError"
    /\ last.args = [valid |-> TRUE]
    /\ last.from = "RUNNING" /\ state = "RUNNING"
    /\ user_application

\* C21: set_stopped() in RESET with no user application loaded fails with
\* AppNotLoadedError without calling any setup hook, and the FSM remains in
\* RESET (no state_changed event is emitted).  The application, once loaded,
\* is never unloaded: none loaded after the request means none before it.
C21_SetStoppedWithoutApp ==
    (last.op = "set_stopped" /\ last.from = "RESET" /\ ~user_application) =>
       /\ last.error = "AppNotLoadedError"
       /\ last.setups = 0
       /\ state = "RESET"
       /\ last.emitted = <<>>

\* C21 witness: a set_stopped() has just failed in RESET with no application
C21_Witness ==
    /\ last.op = "set_stopped" /\ last.from = "RESET"
    /\ last.error = "AppNotLoadedError"
    /\ state = "RESET" /\ ~user_application

\* the run was closed out: stop_timestamp is set, not earlier than
\* start_timestamp, and no run log sink is installed
ClosedOut ==
    /\ ~log_file_handler_id
    /\ IF stop_timestamp = None \/ start_timestamp = None THEN FALSE
       ELSE stop_timestamp[1] >= start_timestamp[1]

\* C22: the PAUSED -> STOPPED transition closes out the run like
\* RUNNING -> STOPPED does: after every entry into STOPPED from RUNNING or from
\* PAUSED, stop_timestamp is set (not null, and not earlier than
\* start_timestamp) and no run log sink remains installed.
C22_StopClosesOut ==
    (/\ last.op = "set_stopped" /\ last.error = "none"
     /\ last.from \in {"RUNNING", "PAUSED"}) => ClosedOut

\* C23: if a STOPPED -> RUNNING request is aborted by an exception in any of
\* its actions, the observable FSM data are as before the request: state
\* STOPPED, run_id and the persisted run id unchanged, no run log sink
\* installed, statistics timer not running and no worker running.
C23_AbortedStartRestores ==
    [][(/\ last'.op = "set_running" /\ state = "STOPPED"
        /\ last'.error # "none") =>
          /\ state' = "STOPPED"
          /\ run_id' = run_id
          /\ run_cfg' = run_cfg
          /\ ~log_file_handler_id'
          /\ ~update_timer'
          /\ \A w \in HandlerIds : ~Alive(handlers'[w])
      ]_vars

\* C24: the statistics timer is active exactly while the FSM is RUNNING: with
\* no request in progress the timer runs if and only if the state is RUNNING,
\* so no periodic statistics tick fires while the FSM is at rest in RESET,
\* STOPPED or PAUSED.
C24_TimerWhileRunning ==
    Idle => (update_timer <=> state = "RUNNING")

\* C25: if the worker does not terminate after stop() (read_packet blocks for
\* ever), the RUNNING -> STOPPED request still completes, by a join timeout.
\* A worker blocked in read_packet never moves again, so the request
\* completes only if the step that ends the wait can be taken with the worker
\* still blocked.
C25_StopDespiteBlockedWorker ==
    (ctl = "join" /\ handlers[event_handler].pc = "blocked") => ENABLED StopRunEnd

\* C26: if read_packet raises while the FSM is RUNNING, the error reaches the
\* FSM, which transitions to STOPPED: the FSM is never at rest in RUNNING with
\* the worker of the run dead.  (Nothing in the program runs on the control
\* thread between the worker's death and the next request: a reaction of the
\* FSM would have to be part of the step in which the worker dies.)
C26_SourceErrorStopsRun ==
    (Idle /\ state = "RUNNING" /\ event_handler # NoHandler) =>
       handlers[event_handler].pc # "died"

\* C27: for every packet class and every instance p that was constructed,
\* unpack(pack(p)) succeeds with the field values of p in declaration order
\* and the derived fields of p, its payload is pack(p), and pack(p) has the
\* fixed size of the class.
C27_RoundTrip ==
    last.op = "round_trip" =>
       /\ last.error = "none"
       /\ last.args.twin.values = last.args.packet.values
       /\ last.args.twin.derived = last.args.packet.derived
       /\ last.args.twin.payload = last.args.data
       /\ Len(last.args.data) = CalcSize(last.args.cls.fields)

\* the values a construct or unpack call presents to the fields, when their
\* number is right
Presented ==
    IF last.op = "construct" /\ Len(last.args.args) = Len(last.args.cls.fields)
    THEN <<last.args.args>>
    ELSE IF last.op = "unpack" /\ Len(last.args.data) = CalcSize(last.args.cls.fields)
    THEN <<UnpackValues(last.args.cls.fields, last.args.data)>>
    ELSE None

\* C28: constructing or unpacking a packet fails with FieldMismatchError
\* exactly when the value presented to some field declared with a constant k
\* differs from k, whatever the other values are (in range or not); a value
\* equal to k is accepted, k = 0 included, and the packet built from bytes
\* keeps those bytes as they were.
C28_ExpectedConstant ==
    Presented # None =>
       LET fields == last.args.cls.fields
           values == Presented[1]
           differs == \E i \in 1 .. Len(fields) :
                         /\ fields[i].expected # None
                         /\ values[i] # fields[i].expected[1]
       IN  /\ differs <=> last.error = "FieldMismatchError"
           /\ (~differs /\ AllPackable(fields, values)) => last.error = "none"
           /\ (last.op = "unpack" /\ last.error = "none") =>
                  last.args.packet.payload = last.args.data

C28_Witness ==
    /\ last.op = "unpack"
    /\ last.args.cls = ZeroHeaderPacket
    /\ last.args.data = <<1, 0>>
    /\ last.error = "FieldMismatchError"

\* the errors that match a value set on a parameter: the type error when
\* the class is not the one of the parameter, else one error for each
\* constraint of the parameter the value violates
Violations(parameter, value) ==
    LET c == parameter.constraints
        v == Raw(value)
        base == IF "min" \in DOMAIN c THEN c["min"] ELSE 0
        span == (IF v < 0 THEN -v ELSE v) + (IF base < 0 THEN -base ELSE base)
    IN  IF ClassName(value) # parameter.type_name THEN {"INVALID_TYPE"}
        ELSE (IF "min" \in DOMAIN c /\ v < c["min"] THEN {"NUMBER_TOO_SMALL"} ELSE {})
             \cup (IF "max" \in DOMAIN c /\ v > c["max"] THEN {"NUMBER_TOO_LARGE"} ELSE {})
             \cup (IF "choices" \in DOMAIN c /\ v \notin c["choices"]
                   THEN {"INVALID_CHOICE"} ELSE {})
             \cup (IF "step" \in DOMAIN c
                      /\ \A k \in -span .. span : v # base + k * c["step"]
                   THEN {"INVALID_STEP"} ELSE {})

\* set_value on a parameter: an invalid value leaves the previous value in
\* place and reports a matching error, a valid value is stored
SetReports ==
    last.op = "set_value" =>
       LET before == last.args.before[last.args.key]
           after == configuration[last.args.key]
           violations == Violations(before, last.args.value)
       IN  /\ after.constraints = before.constraints
           /\ after.type_name = before.type_name
           /\ IF violations = {}
              THEN last.error = "PARAMETER_VALID" /\ after.value = <<last.args.value>>
              ELSE last.error \in violations /\ after.value = before.value

ValidEntries(data, key, parameter) ==
    {i \in 1 .. Len(data) :
        data[i].key = key /\ Violations(parameter, data[i].value) = {}}

\* C30: reading a file with an unknown key or an invalid value for a known
\* key does not fail; unknown entries are ignored, invalid values are
\* skipped, and every known parameter takes the last valid value the file
\* has for it, or keeps its value when the file has none.
C30_ReadResilient ==
    last.op = "read" =>
       /\ last.error = "none"
       /\ \A key \in DOMAIN configuration :
             LET valid == ValidEntries(last.args.data, key, last.args.before[key])
             IN  configuration[key].value =
                    IF valid = {} THEN last.args.before[key].value
                    ELSE <<last.args.data[CHOOSE i \in valid : \A j \in valid : j <= i].value>>

RECURSIVE WrittenTo(_, _)
\* the packets a flush wrote to the sink at path, in the order of the writes
WrittenTo(writes, path) ==
    IF writes = <<>> THEN <<>>
    ELSE (IF Head(writes)[1] = path THEN <<Head(writes)[2]>> ELSE <<>>)
         \o WrittenTo(Tail(writes), path)

\* C31: a flush() that returns has written to the canonical sink exactly the
\* packets that were in the queue when it was called, in their order, also
\* when puts interleaved with it; every packet put during the flush is still
\* in the queue when flush returns and was not written by this flush.
C31_FlushSnapshot ==
    (last.op = "flush" /\ last.error = "none" /\ last.n > 0) =>
       LET written == WrittenTo(last.args.writes, handlers[1].sinks[1].path)
       IN  /\ written = last.args.snapshot
           /\ \A i \in 1 .. Len(last.args.during) :
                 /\ last.args.during[i] \in Range(last.args.queue)
                 /\ last.args.during[i] \notin Range(written)

\* C32: in a flush() that returns, also when puts interleaved with it and
\* the queue was at capacity, every projection sink received the packets the
\* canonical sink received, in the same order.
C32_SinksAgree ==
    (last.op = "flush" /\ last.error = "none" /\ last.n > 0) =>
       \A j \in 1 .. Len(handlers[1].sinks) :
          WrittenTo(last.args.writes, handlers[1].sinks[j].path)
             = WrittenTo(last.args.writes, handlers[1].sinks[1].path)

\* C33: in a flush() that returns, the i-th packet was written to every sink
\* before the (i+1)-th packet was written to any sink.
C33_PacketMajorOrder ==
    (last.op = "flush" /\ last.error = "none") =>
       \A a, b \in 1 .. Len(last.args.writes) :
          last.args.writes[a][3] < last.args.writes[b][3] => a < b

\* C40: when a write or a projection raises part-way through a flush() that
\* no put interleaved with, every packet that was in the queue at the call is
\* still in the queue or was written to the canonical sink.
C40_FailedFlushLosesNothing ==
    (last.op = "flush" /\ last.error # "none" /\ last.args.during = <<>>) =>
       \A p \in Range(last.args.snapshot) :
          \/ p \in Range(last.args.queue)
          \/ IF Len(handlers[1].sinks) = 0 THEN FALSE
             ELSE p \in Range(WrittenTo(last.args.writes, handlers[1].sinks[1].path))

\* C34: an iteration of the acquisition loop hands a packet instance to put,
\* which does not raise the wrong-type error, and makes its calls in the
\* order read_packet, put, statistics, flush when needed, process_packet,
\* with process_packet called exactly once.
C34_LoopOrder ==
    last.op = "acquire_packet" =>
       /\ last.args.returned = "packet"
       /\ last.error # "TypeError"
       /\ last.args.steps =
             IF last.args.flush
             THEN <<"read_packet", "put", "update", "flush_needed", "flush_buffer",
                    "process_packet">>
             ELSE <<"read_packet", "put", "update", "flush_needed", "process_packet">>

BelowWatermark ==
    /\ handlers[1].pc = "created"
    /\ Len(handlers[1].sinks) >= 1
    /\ bufcfg.flush_size # None /\ bufcfg.max_size # None
    /\ IF bufcfg.flush_size = None \/ bufcfg.max_size = None THEN FALSE
       ELSE /\ bufcfg.flush_size[1] < bufcfg.max_size[1]
            /\ Len(handlers[1].queue) < bufcfg.flush_size[1]

\* C36: with a sink attached and flush_size < max_size, an iteration of the
\* acquisition loop that starts below the watermark ends with at most
\* flush_size packets queued, fewer than max_size, none discarded, and with
\* an empty queue when its put reached the watermark.
C36_WatermarkBound ==
    [][(BelowWatermark /\ last'.op = "acquire_packet") =>
          /\ Len(handlers'[1].queue) <= bufcfg.flush_size[1]
          /\ Len(handlers'[1].queue) < bufcfg.max_size[1]
          /\ handlers'[1].discarded = handlers[1].discarded
          /\ (Len(handlers[1].queue) + 1 >= bufcfg.flush_size[1]
                 => Len(handlers'[1].queue) = 0)]_vars

\* C37: a set_running() requested in PAUSED leaves run_id, the persisted
\* run id, the run folders, the current handler, the sinks of every handler,
\* the files and start_timestamp as they were; run_id changes only in a
\* set_running() requested in STOPPED.
C37_ResumeFrame ==
    [][/\ (state = "PAUSED" /\ last'.op = "set_running") =>
             /\ run_id' = run_id
             /\ run_cfg' = run_cfg
             /\ folders' = folders
             /\ start_timestamp' = start_timestamp
             /\ event_handler' = event_handler
             /\ \A w \in HandlerIds : handlers'[w].sinks = handlers[w].sinks
             /\ files' = files
       /\ run_id' # run_id => (state = "STOPPED" /\ last'.op = "set_running")
      ]_vars

\* C37 witness: a paused run was resumed and is running under its run id
C37_Witness ==
    /\ last.op = "set_running" /\ last.from = "PAUSED" /\ last.error = "none"
    /\ state = "RUNNING"
    /\ run_id >= 1
    /\ event_handler = run_id
    /\ Len(handlers[run_id].sinks) >= 1

\* C38: on an event handler, packets_written is at most packets_processed
\* and their difference is the number of packets queued plus the number
\* discarded by overflow or by clear.
C38_StatisticsBalance ==
    handlers[1].pc = "created" =>
       /\ handlers[1].packets_written <= handlers[1].packets_processed
       /\ handlers[1].packets_processed - handlers[1].packets_written =
             Len(handlers[1].queue) + Cardinality(handlers[1].discarded)

\* C39: with no transition request in progress the run id stored in the
\* config file equals the run id in memory, and every run handler and every
\* run folder belongs to a run id of its own, not above the current one.
C39_RunIdPersisted ==
    Idle =>
       /\ run_cfg = run_id
       /\ \A w \in HandlerIds : handlers[w].pc # "none" => w <= run_id
       /\ \A r \in folders : r <= run_id
====
